---- MODULE Spec2Model ----
(***************************************************************************)
(* Model of the batch orchestration layer of akord-js:                     *)
(*   BatchService.stackCreate       src/src/core/batch.ts 105-232          *)
(*   BatchService.membershipInvite  src/src/core/batch.ts 240-325          *)
(*   BatchService.batchUpdate       src/src/core/batch.ts 327-358          *)
(*   Akord.batchAction              src/unnamed/part_001  596-647          *)
(*                                                                         *)
(* JavaScript runs one task at a time: code between two awaits is one      *)
(* atomic step.  Every action below is the code from the continuation of   *)
(* one await up to the next await; which pending await completes next, and *)
(* whether it resolves or rejects, is chosen nondeterministically.         *)
(***************************************************************************)
EXTENDS Integers, Sequences, FiniteSets, TLC

\* ---------------------------------------------------------------- bounds
MaxItems == 3

\* BatchService.BATCH_CHUNK_SIZE. The code's value is 50; the model scales
\* it to 2 so that a batch of MaxItems items is split into several chunks.
BATCH_CHUNK_SIZE == 2

NoTx == 0
NoResult == [returned |-> FALSE]

Min(a, b) == IF a < b THEN a ELSE b
Range(s) == {s[k] : k \in 1..Len(s)}

VARIABLES
    items,                  \* the items argument of the running batch call
    aborted,                \* options.cancelHook.signal.aborted
    pc,                     \* position of stackCreate's own async function
    prep,                   \* per item: stage of its preparation callback
    transactions,           \* the queue of prepared transaction descriptors
    currentTx,              \* currentTx of the drain loop (NoTx before)
    stacksCreated,
    processedStacksCount,
    data,                   \* data (the array result in batchUpdate)
    errors,
    result,                 \* the value the batch call returned, or NoResult
    post,                   \* per item: state of its postContractTransaction
    pushLog,                \* history: order of transactions.push calls
    postLog,                \* history: order of postContractTransaction calls
    postedAtAbort,          \* history: posts that had succeeded when the
                            \*          signal fired (-1 before)
    inFlightAtAbort,        \* history: a post was in flight at that moment
    members,                \* membershipInvite: what api.getMembers returned
    txIndex,                \* membershipInvite: position of the for-of loop
    invited,                \* history: items inviteNewUser was called for
    itemIndex,              \* batchUpdate: position of the loop over items
    vaultId,                \* this.vaultId of the batch service
    isPublic,               \* this.isPublic
    keys,                   \* this.keys
    failedItem,             \* history: the item whose request was rejected
    fileSize,               \* stackCreate: item.file.size of every item
    progress,               \* stackCreate: the accumulated byte counter
    perFileProgress,        \* stackCreate: the Map from upload id to bytes
    reported,               \* history: the last value given to onProgress
    groupRef,               \* this.groupRef of the batch service
    tags,                   \* per item: arweaveTags of the item's service
    groupRefCalls,          \* history: number of setGroupRef calls
    postedTags,             \* history: the tags of every posted transaction
    node,                   \* the ledger's object of the node operated on
    pending,                \* per user: the memo operation under way
    outcome,                \* history: how the last node operation ended
    opCount,                \* history: number of node operations begun
    calls,                  \* per concurrent batchUpdate call: its own state
    uploads,                \* history, per item: the id uploadState returned
    postedData              \* history: input.data of every posted transaction

scVars == <<items, aborted, pc, prep, transactions, currentTx, stacksCreated,
            processedStacksCount, data, errors, result, post, pushLog,
            postLog, postedAtAbort, inFlightAtAbort>>

miVars == <<members, txIndex, invited>>

buVars == <<itemIndex, vaultId, isPublic, keys, failedItem>>

\* the progress hook of stackCreate
phVars == <<fileSize, progress, perFileProgress, reported>>

\* a node of a vault and the operations on it
ndVars == <<node, pending, outcome, opCount>>

\* batchUpdate calls that run concurrently on one batch service
ccVars == <<calls>>

\* the uploaded states and the data pointers of the posted transactions
upVars == <<uploads, postedData>>

\* the state outside the control flow of the three batch calls above
extVars == <<phVars, ndVars, ccVars, upVars>>

\* the group reference of a batch call and the tags made from it
grVars == <<groupRef, tags, groupRefCalls, postedTags>>

vars == <<scVars, miVars, buVars, extVars, grVars>>

\* onProgress has not been called
NoReport == [kind |-> "none"]

\* options.progressHook is not given: the hook of stackCreate is not
\* installed, its counter and Map stay as they are created
NoProgressHook ==
    /\ fileSize = <<>>
    /\ progress = 0
    /\ perFileProgress = <<>>
    /\ reported = NoReport

Null == "null"

\* The node does not exist: no transaction has created it.
NoNode == [type |-> "none", status |-> "NONE", parentId |-> Null, data |-> <<>>]

NoOp == [op |-> "none"]
NoOutcome == [op |-> "none", n |-> 0]

\* no operation on a node is under way or has been made
NoNodeOps ==
    /\ node = NoNode
    /\ pending = <<>>
    /\ outcome = NoOutcome
    /\ opCount = 0

\* uploadState has not returned
NoId == <<>>

\* the id uploadState returns for the state of item i
StateId(i) == <<"state", i>>

\* the state outside the batch call that a specification is about
IdleExt ==
    /\ NoProgressHook
    /\ NoNodeOps
    /\ calls = <<>>
    /\ uploads = [i \in DOMAIN items |-> NoId]
    /\ postedData = <<>>

\* this.groupRef = null
NullRef == <<>>

\* uuidv4(): the identifier drawn for the n-th group reference
uuidv4(n) == <<"uuid", n>>

\* Mutant: a batch of one item gets a group reference too.
setGroupRef_NonEmpty(its, n) == IF Len(its) > 0 THEN uuidv4(n) ELSE NullRef

\* setGroupRef(items), called for the n-th time on this service:
\* items && items.length > 1 ? uuidv4() : null
setGroupRef(its, n) == IF Len(its) > 1 THEN uuidv4(n) ELSE NullRef

\* getTxTags() of a service made from the batch service: the tag set holds
\* the group reference of that service when there is one.
getTxTags(ref) == IF ref = NullRef THEN {} ELSE {<<"Group-Ref", ref>>}

\* A batch service before a call: groupRef is unset or is what an earlier
\* call left there; no tags are computed and nothing is posted.
InitGroupRef ==
    /\ groupRef \in {NullRef, uuidv4(0)}
    /\ tags = [i \in DOMAIN items |-> {}]
    /\ groupRefCalls = 0
    /\ postedTags = <<>>

\* ------------------------------------------------------------ stackCreate

\* Mutant: the data pointer of the transaction is the id of the node.
InputData_NodeId(i) == <<"node", i>>

\* input: { function, data: id, ... } of the descriptor of item i, where id
\* is what the uploadState of that item returned
InputData(i) == uploads[i]

\* chunks(arr, n): the slices arr[i .. i+n) for i = 0, n, 2n, ...
RECURSIVE chunksFrom(_, _, _)
chunksFrom(arr, n, i) ==
    IF i >= Len(arr) THEN <<>>
    ELSE <<SubSeq(arr, i + 1, Min(i + n, Len(arr)))>> \o chunksFrom(arr, n, i + n)

chunks(arr, n) == chunksFrom(arr, n, 0)

\* The items whose preparation callback has been started once the loop over
\* the chunks has run: Promise.all(chunk.map(...)) is not awaited, so the
\* loop starts the callbacks of every chunk before any of them continues.
StartedByChunkLoop(arr) ==
    UNION {Range(c) : c \in Range(chunks(arr, BATCH_CHUNK_SIZE))}

Preparing == {i \in DOMAIN prep : prep[i] \in {"file", "state"}}
InFlight == {i \in DOMAIN post : post[i] = "inflight"}
PostsSucceeded == {i \in DOMAIN post : post[i] \in {"ok"}}
PostsFailed == {i \in DOMAIN post : post[i] = "failed"}

ItemsOf(k) == [i \in 1..k |-> i]

InitStackCreate ==
    /\ items \in {ItemsOf(k) : k \in 0..MaxItems}
    /\ aborted = FALSE
    /\ pc = "setContext"
    /\ prep = [i \in DOMAIN items |-> "idle"]
    /\ transactions = <<>>
    /\ currentTx = NoTx
    /\ stacksCreated = 0
    /\ processedStacksCount = 0
    /\ data = <<>>
    /\ errors = <<>>
    /\ result = NoResult
    /\ post = [i \in DOMAIN items |-> "none"]
    /\ pushLog = <<>>
    /\ postLog = <<>>
    /\ postedAtAbort = -1
    /\ inFlightAtAbort = FALSE
    /\ members = <<>>
    /\ txIndex = 0
    /\ invited = {}
    /\ itemIndex = 0
    /\ vaultId = "null"
    /\ isPublic = FALSE
    /\ keys = "null"
    /\ failedItem = 0
    /\ IdleExt
    /\ InitGroupRef

\* return { data, errors, cancelled }
Return(d, e, c) ==
    /\ pc' = "returned"
    /\ result' = [returned |-> TRUE, data |-> d, errors |-> e, cancelled |-> c]

\* Mutant: every item is reported as cancelled.
Cancelled_NotCounted(n, sc) == n

\* cancelled: items.length - stacksCreated
Cancelled(n, sc) == n - sc

\* Mutant: the loop also ends when no preparation is left that can still
\* queue a transaction.
LoopCondition_UntilPrepared(sc, n) ==
    sc < n /\ (transactions # <<>> \/ \E i \in DOMAIN prep : prep[i] \in {"file", "state"})

\* while (stacksCreated < items.length)
LoopCondition(sc, n) == sc < n

\* Mutant: the signal is never looked at.
CancelObserved_Ignored(sig) == FALSE

\* options.cancelHook?.signal.aborted
CancelObserved(sig) == sig

\* Mutant: transactions.pop() instead of transactions.shift().
Dequeue_Pop(q) == <<q[Len(q)], SubSeq(q, 1, Len(q) - 1)>>

\* currentTx = transactions.shift()
Dequeue(q) == <<Head(q), Tail(q)>>

\* await this.api.postContractTransaction(...): the loop is suspended
\* until the post settles
PcAfterPostStarted == "posting"

\* Mutant: the catch block rethrows, which ends stackCreate.
PcAfterPostError_Rethrow == "thrown"

\* catch (error) { errors.push(...) }: the loop goes on
PcAfterPostError == "check"

\* await this.api.getVault / setMembershipKeys, then the chunk loop, which
\* starts every preparation callback up to its first await
SetContext ==
    /\ pc = "setContext"
    /\ \/ /\ pc' = "check"
          /\ groupRef' = setGroupRef(items, groupRefCalls + 1)
          /\ groupRefCalls' = groupRefCalls + 1
          /\ prep' = [i \in DOMAIN items |->
                        IF items[i] \in StartedByChunkLoop(items)
                        THEN "file" ELSE "idle"]
          /\ tags' = [i \in DOMAIN items |->
                        IF items[i] \in StartedByChunkLoop(items)
                        THEN getTxTags(groupRef') ELSE tags[i]]
          /\ UNCHANGED result
       \/ /\ pc' = "thrown"
          /\ UNCHANGED <<prep, result, groupRef, groupRefCalls, tags>>
    /\ UNCHANGED <<items, aborted, transactions, currentTx, stacksCreated,
                   processedStacksCount, data, errors, post, pushLog,
                   postLog, postedAtAbort, inFlightAtAbort>>
    /\ UNCHANGED <<miVars, buVars, extVars, postedTags>>

\* getTxTags, fileService.create, newVersion, processWriteString of one item
\* settle.  A rejection rejects the Promise.all of the chunk, which nobody
\* awaits or catches: the item is never queued and the loop is not told.
PrepareFile(i) ==
    /\ i \in DOMAIN prep
    /\ prep[i] = "file"
    /\ \E ok \in BOOLEAN :
         prep' = [prep EXCEPT ![i] = IF ok THEN "state" ELSE "failed"]
    /\ UNCHANGED <<items, aborted, pc, transactions, currentTx, stacksCreated,
                   processedStacksCount, data, errors, result, post, pushLog,
                   postLog, postedAtAbort, inFlightAtAbort>>
    /\ UNCHANGED <<miVars, buVars, extVars, grVars>>

\* service.uploadState(state), then processedStacksCount += 1 and
\* transactions.push(...)
PrepareState(i) ==
    /\ i \in DOMAIN prep
    /\ prep[i] = "state"
    /\ \/ /\ prep' = [prep EXCEPT ![i] = "queued"]
          /\ uploads' = [uploads EXCEPT ![i] = StateId(i)]
          /\ processedStacksCount' = processedStacksCount + 1
          /\ transactions' = Append(transactions, items[i])
          /\ pushLog' = Append(pushLog, items[i])
       \/ /\ prep' = [prep EXCEPT ![i] = "failed"]
          /\ UNCHANGED <<processedStacksCount, transactions, pushLog, uploads>>
    /\ UNCHANGED <<items, aborted, pc, currentTx, stacksCreated, data, errors,
                   result, post, postLog, postedAtAbort, inFlightAtAbort>>
    /\ UNCHANGED <<miVars, buVars, phVars, ndVars, ccVars, postedData, grVars>>

\* One pass of the while loop, from its condition to the next await.
Check ==
    /\ pc = "check"
    /\ IF ~LoopCondition(stacksCreated, Len(items))
       THEN /\ Return(data, errors,
                      IF CancelObserved(aborted)
                      THEN Cancelled(Len(items), stacksCreated) ELSE 0)
            /\ UNCHANGED <<transactions, currentTx, post, postLog, postedTags,
                           postedData>>
       ELSE IF CancelObserved(aborted)
       THEN /\ Return(data, errors, Cancelled(Len(items), stacksCreated))
            /\ UNCHANGED <<transactions, currentTx, post, postLog, postedTags,
                           postedData>>
       ELSE IF Len(transactions) = 0
       THEN /\ pc' = "wait"
            /\ UNCHANGED <<result, transactions, currentTx, post, postLog,
                           postedTags, postedData>>
       ELSE /\ currentTx' = Dequeue(transactions)[1]
            /\ transactions' = Dequeue(transactions)[2]
            /\ post' = [post EXCEPT ![currentTx'] = "inflight"]
            /\ postLog' = Append(postLog, currentTx')
            /\ postedTags' = Append(postedTags, tags[currentTx'])
            /\ postedData' = Append(postedData, InputData(currentTx'))
            /\ pc' = PcAfterPostStarted
            /\ UNCHANGED result
    /\ UNCHANGED <<items, aborted, prep, stacksCreated, processedStacksCount,
                   data, errors, pushLog, postedAtAbort, inFlightAtAbort>>
    /\ UNCHANGED <<miVars, buVars, phVars, ndVars, ccVars, uploads, groupRef,
                   tags, groupRefCalls>>

\* setTimeout(resolve, TRANSACTION_QUEUE_WAIT_TIME) fires
TimerFires ==
    /\ pc = "wait"
    /\ pc' = "check"
    /\ UNCHANGED <<items, aborted, prep, transactions, currentTx,
                   stacksCreated, processedStacksCount, data, errors, result,
                   post, pushLog, postLog, postedAtAbort, inFlightAtAbort>>
    /\ UNCHANGED <<miVars, buVars, extVars, grVars>>

\* postContractTransaction resolves
PostSucceeds ==
    /\ currentTx \in InFlight
    /\ post' = [post EXCEPT ![currentTx] = "ok"]
    /\ pc' = "processing"
    /\ UNCHANGED <<items, aborted, prep, transactions, currentTx,
                   stacksCreated, processedStacksCount, data, errors, result,
                   pushLog, postLog, postedAtAbort, inFlightAtAbort>>
    /\ UNCHANGED <<miVars, buVars, extVars, grVars>>

\* postContractTransaction rejects: the catch block records the error
PostFails ==
    /\ currentTx \in InFlight
    /\ post' = [post EXCEPT ![currentTx] = "failed"]
    /\ errors' = Append(errors, currentTx)
    /\ pc' = PcAfterPostError
    /\ UNCHANGED <<items, aborted, prep, transactions, currentTx,
                   stacksCreated, processedStacksCount, data, result,
                   pushLog, postLog, postedAtAbort, inFlightAtAbort>>
    /\ UNCHANGED <<miVars, buVars, extVars, grVars>>

\* onStackCreated and processNode resolve: data.push, stacksCreated += 1,
\* then the check of the signal that follows them
ProcessSucceeds ==
    /\ pc = "processing"
    /\ data' = Append(data, currentTx)
    /\ stacksCreated' = stacksCreated + 1
    /\ IF CancelObserved(aborted)
       THEN Return(data', errors, Cancelled(Len(items), stacksCreated'))
       ELSE pc' = "check" /\ UNCHANGED result
    /\ UNCHANGED <<items, aborted, prep, transactions, currentTx,
                   processedStacksCount, errors, post, pushLog, postLog,
                   postedAtAbort, inFlightAtAbort>>
    /\ UNCHANGED <<miVars, buVars, extVars, grVars>>

\* onStackCreated or processNode rejects: the same catch block
ProcessFails ==
    /\ pc = "processing"
    /\ errors' = Append(errors, currentTx)
    /\ pc' = PcAfterPostError
    /\ UNCHANGED <<items, aborted, prep, transactions, currentTx,
                   stacksCreated, processedStacksCount, data, result, post,
                   pushLog, postLog, postedAtAbort, inFlightAtAbort>>
    /\ UNCHANGED <<miVars, buVars, extVars, grVars>>

\* The caller aborts options.cancelHook while stackCreate is running.
Abort ==
    /\ ~aborted
    /\ pc \notin {"returned", "thrown"}
    /\ aborted' = TRUE
    /\ postedAtAbort' = Cardinality(PostsSucceeded)
    /\ inFlightAtAbort' = (InFlight # {})
    /\ UNCHANGED <<items, pc, prep, transactions, currentTx, stacksCreated,
                   processedStacksCount, data, errors, result, post, pushLog,
                   postLog>>
    /\ UNCHANGED <<miVars, buVars, extVars, grVars>>

NextStackCreate ==
    \/ SetContext
    \/ \E i \in DOMAIN items : PrepareFile(i)
    \/ \E i \in DOMAIN items : PrepareState(i)
    \/ Check
    \/ TimerFires
    \/ PostSucceeds
    \/ PostFails
    \/ ProcessSucceeds
    \/ ProcessFails
    \/ Abort

SpecStackCreate == InitStackCreate /\ [][NextStackCreate]_vars

\* The event loop runs every continuation that is ready, the timer fires,
\* and every request that was issued settles.  Nothing makes the caller
\* abort, so Abort carries no fairness.
FairnessStackCreate ==
    /\ WF_vars(SetContext)
    /\ WF_vars(Check)
    /\ WF_vars(TimerFires)
    /\ WF_vars(PostSucceeds \/ PostFails)
    /\ WF_vars(ProcessSucceeds \/ ProcessFails)
    /\ \A i \in 1..MaxItems : WF_vars(PrepareFile(i) \/ PrepareState(i))

FairSpecStackCreate == SpecStackCreate /\ FairnessStackCreate

\* ----------------------------------------- the progress hook of stackCreate

MaxSize == 2
MaxTotal == 2

\* localProgress: the percentages an upload reports
LocalProgress == {0, 50, 100}

RECURSIVE SumUpTo(_, _)
SumUpTo(f, k) == IF k = 0 THEN 0
                 ELSE (IF k \in DOMAIN f THEN f[k] ELSE 0) + SumUpTo(f, k - 1)

\* items.reduce((sum, stack) => sum + stack.file.size, 0)
size == SumUpTo(fileSize, Len(items))

\* Math.floor(localProgress / 100 * data.total)
StackBytesUploaded(localProgress, total) == (localProgress * total) \div 100

\* perFileProgress.get(data.id) || 0
PerFileGet(id) == IF id \in DOMAIN perFileProgress THEN perFileProgress[id]
                  ELSE 0

\* progress += stackBytesUploaded - (perFileProgress.get(data.id) || 0)
Accumulate(acc, bytes, before) == acc + bytes - before

\* perFileProgress.set(data.id, stackBytesUploaded)
PerFileSet(id, bytes) ==
    [k \in DOMAIN perFileProgress \cup {id} |->
        IF k = id THEN bytes ELSE perFileProgress[k]]

\* Math.round(n / d) for n >= 0, d > 0: the nearest integer, halves go up
MathRound(n, d) == (2 * n + d) \div (2 * d)

\* Math.min(100, Math.round(progress / size * 100)) on JavaScript numbers:
\* 0 / 0 is NaN and stays NaN through round and min; a positive number
\* divided by 0 is Infinity, which min brings down to 100.
OverallProgress(p, s) ==
    IF s = 0
    THEN (IF p = 0 THEN [kind |-> "NaN"]
          ELSE [kind |-> "number", value |-> 100])
    ELSE [kind |-> "number", value |-> Min(100, MathRound(100 * p, s))]

\* stackCreate is called with a progressHook and has started the upload of
\* every item: each item has a file of some size, empty files included
InitProgressHook ==
    /\ items \in {ItemsOf(k) : k \in 1..MaxItems}
    /\ fileSize \in [DOMAIN items -> 0..MaxSize]
    /\ progress = 0
    /\ perFileProgress = <<>>
    /\ reported = NoReport
    /\ pc = "check"
    /\ prep = [i \in DOMAIN items |-> "file"]
    /\ post = [i \in DOMAIN items |-> "none"]
    /\ aborted = FALSE
    /\ transactions = <<>>
    /\ currentTx = NoTx
    /\ stacksCreated = 0
    /\ processedStacksCount = 0
    /\ data = <<>>
    /\ errors = <<>>
    /\ result = NoResult
    /\ pushLog = <<>>
    /\ postLog = <<>>
    /\ postedAtAbort = -1
    /\ inFlightAtAbort = FALSE
    /\ members = <<>>
    /\ txIndex = 0
    /\ invited = {}
    /\ itemIndex = 0
    /\ vaultId = "null"
    /\ isPublic = FALSE
    /\ keys = "null"
    /\ failedItem = 0
    /\ groupRef = setGroupRef(items, 1)
    /\ tags = [i \in DOMAIN items |-> getTxTags(groupRef)]
    /\ groupRefCalls = 1
    /\ postedTags = <<>>
    /\ NoNodeOps
    /\ calls = <<>>
    /\ uploads = [i \in DOMAIN items |-> NoId]
    /\ postedData = <<>>

\* stackProgressHook(localProgress, data): the upload of item id reports
\* localProgress percent of data.total bytes.  data.total is the size of
\* the request the upload sends, which the upload decides.
StackProgressHook(id, localProgress, total) ==
    /\ id \in DOMAIN prep
    /\ prep[id] = "file"
    /\ progress' = Accumulate(progress,
                              StackBytesUploaded(localProgress, total),
                              PerFileGet(id))
    /\ perFileProgress' = PerFileSet(id, StackBytesUploaded(localProgress, total))
    /\ reported' = OverallProgress(progress', size)
    /\ UNCHANGED <<fileSize, scVars, miVars, buVars, grVars, ndVars, ccVars,
                   upVars>>

NextProgressHook ==
    \E id \in DOMAIN items : \E localProgress \in LocalProgress :
        \E total \in 0..MaxTotal : StackProgressHook(id, localProgress, total)

SpecProgressHook == InitProgressHook /\ [][NextProgressHook]_vars

\* ------------------------------------------------------- membershipInvite

MaxInvites == 2
MaxMembers == 2

scOnly == <<aborted, currentTx, stacksCreated, processedStacksCount, pushLog,
            postedAtAbort, inFlightAtAbort, buVars, extVars>>

\* what find returns when no member matches
Undefined == [email |-> "undefined", status |-> "undefined"]

\* StatusType
StatusType == {"ACCEPTED", "PENDING", "REVOKED", "INVITED"}

\* activeStatus of core/membership, the statuses the specification calls
\* active-or-pending: ACCEPTED is the active one, PENDING and INVITED are
\* the two in which the invitation is not answered yet.
activeStatus == {"ACCEPTED", "PENDING", "INVITED"}

ItemEmails == {"A@x.io", "b@x.io"}
MemberEmails == {"a@X.io"}

\* String.prototype.toLowerCase on the addresses of the model
toLowerCase(e) ==
    CASE e = "A@x.io" -> "a@x.io"
      [] e = "a@X.io" -> "a@x.io"
      [] OTHER -> e

SeqsUpTo(S, k) == UNION {[1..m -> S] : m \in 0..k}

\* members.find(item => item.email?.toLowerCase() === email): the first
\* member with that address, or undefined
FindMember(ms, email) ==
    LET hits == {k \in 1..Len(ms) : toLowerCase(ms[k].email) = email}
    IN  IF hits = {} THEN Undefined
        ELSE ms[CHOOSE k \in hits : \A h \in hits : k <= h]

\* member && activeStatus.includes(member.status)
AlreadyMember(ms, item) ==
    LET member == FindMember(ms, toLowerCase(item.email))
    IN  member # Undefined /\ member.status \in activeStatus

\* errors.push({ email: email, message, error: new BadRequest(message) })
ExistsError(item) ==
    [email |-> toLowerCase(item.email),
     message |-> "Membership already exists for this user."]

\* errors.push({ email: email, error, message: error.message, item })
InviteError(i) ==
    [email |-> toLowerCase(items[i].email), message |-> "error", item |-> i]

\* errors.push({ email: tx.item.email, error, message: error.message,
\*               item: tx.item })
PostError(i) ==
    [email |-> items[i].email, message |-> "error", item |-> i]

\* Mutant: the entry of an invited new user carries a transaction id.
NewUserEntry_WithTransaction(i) ==
    [membershipId |-> <<"invite", i>>, transactionId |-> <<"tx", i>>]

\* data.push({ membershipId: id, transactionId: null })
NewUserEntry(i) ==
    [membershipId |-> <<"invite", i>>, transactionId |-> Null]

\* data.push({ membershipId: membership.id, transactionId: id, object })
MembershipEntry(i) ==
    [membershipId |-> <<"membership", i>>, transactionId |-> <<"tx", i>>]

\* Mutant: no error is pushed for an item that is a member already.
ExistsErrors_None(ms, its, k) == <<>>

\* The error entries pushed while items.map starts the callbacks: each
\* callback runs up to its first await, in the order of the items.
RECURSIVE ExistsErrors(_, _, _)
ExistsErrors(ms, its, k) ==
    IF k > Len(its) THEN <<>>
    ELSE (IF AlreadyMember(ms, its[k]) THEN <<ExistsError(its[k])>> ELSE <<>>)
         \o ExistsErrors(ms, its, k + 1)

InitMembershipInvite ==
    /\ items \in SeqsUpTo([email : ItemEmails], MaxInvites)
    /\ members \in SeqsUpTo([email : MemberEmails, status : StatusType],
                            MaxMembers)
    /\ pc = "setContext"
    /\ prep = [i \in DOMAIN items |-> "idle"]
    /\ post = [i \in DOMAIN items |-> "none"]
    /\ transactions = <<>>
    /\ data = <<>>
    /\ errors = <<>>
    /\ result = NoResult
    /\ postLog = <<>>
    /\ txIndex = 0
    /\ invited = {}
    /\ itemIndex = 0
    /\ vaultId = "null"
    /\ isPublic = FALSE
    /\ keys = "null"
    /\ failedItem = 0
    /\ aborted = FALSE
    /\ currentTx = NoTx
    /\ stacksCreated = 0
    /\ processedStacksCount = 0
    /\ pushLog = <<>>
    /\ postedAtAbort = -1
    /\ inFlightAtAbort = FALSE
    /\ IdleExt
    /\ InitGroupRef

\* return { data: data, errors: errors }
MiReturn(d, e) ==
    /\ pc' = "returned"
    /\ result' = [returned |-> TRUE, data |-> d, errors |-> e]

\* A callback of items.map rejects: Promise.all rejects, and the await on
\* it throws out of membershipInvite if it is still waiting there.
PcAfterRejection == IF pc = "prepare" THEN "thrown" ELSE pc

\* await getMembers, setGroupRef, await getVault, setMembershipKeys; then
\* items.map starts every callback.  getMembers rejects before setGroupRef
\* is called, the other two after it.
MiSetContext ==
    /\ pc = "setContext"
    /\ \/ /\ pc' = "prepare"
          /\ groupRef' = setGroupRef(items, groupRefCalls + 1)
          /\ groupRefCalls' = groupRefCalls + 1
          /\ prep' = [i \in DOMAIN items |->
                        IF AlreadyMember(members, items[i])
                        THEN "rejected" ELSE "existsUser"]
          /\ errors' = ExistsErrors(members, items, 1)
       \/ /\ pc' = "thrown"
          /\ \/ UNCHANGED <<groupRef, groupRefCalls>>
             \/ /\ groupRef' = setGroupRef(items, groupRefCalls + 1)
                /\ groupRefCalls' = groupRefCalls + 1
          /\ UNCHANGED <<prep, errors>>
    /\ UNCHANGED <<items, members, transactions, data, result, post, postLog,
                   txIndex, invited, scOnly, tags, postedTags>>

\* await this.api.existsUser(email) settles
MiExistsUser(i) ==
    /\ prep[i] = "existsUser"
    /\ \/ /\ prep' = [prep EXCEPT ![i] = "userData"]
          /\ UNCHANGED <<pc, invited>>
       \/ /\ prep' = [prep EXCEPT ![i] = "inviteNewUser"]
          /\ invited' = invited \cup {i}
          /\ UNCHANGED pc
       \/ /\ prep' = [prep EXCEPT ![i] = "failed"]
          /\ pc' = PcAfterRejection
          /\ UNCHANGED invited
    /\ UNCHANGED <<items, members, transactions, data, errors, result, post,
                   postLog, txIndex, scOnly, grVars>>

\* getUserPublicData, prepareMemberKeys, processWriteString and getTxTags
\* settle: four awaits in a row with no effect on the shared arrays
MiUserData(i) ==
    /\ prep[i] = "userData"
    /\ \/ /\ prep' = [prep EXCEPT ![i] = "uploadState"]
          /\ tags' = [tags EXCEPT ![i] = {<<"Member-Address", i>>}
                                          \cup getTxTags(groupRef)]
          /\ UNCHANGED pc
       \/ /\ prep' = [prep EXCEPT ![i] = "failed"]
          /\ pc' = PcAfterRejection
          /\ UNCHANGED tags
    /\ UNCHANGED <<items, members, transactions, data, errors, result, post,
                   postLog, txIndex, invited, scOnly, groupRef, groupRefCalls,
                   postedTags>>

\* service.uploadState(state) settles; transactions.push(...)
MiUploadState(i) ==
    /\ prep[i] = "uploadState"
    /\ \/ /\ prep' = [prep EXCEPT ![i] = "queued"]
          /\ uploads' = [uploads EXCEPT ![i] = StateId(i)]
          /\ transactions' = Append(transactions, i)
          /\ UNCHANGED pc
       \/ /\ prep' = [prep EXCEPT ![i] = "failed"]
          /\ pc' = PcAfterRejection
          /\ UNCHANGED <<transactions, uploads>>
    /\ UNCHANGED <<items, members, data, errors, result, post, postLog,
                   txIndex, invited, grVars, postedData>>
    /\ UNCHANGED <<aborted, currentTx, stacksCreated,
                   processedStacksCount, pushLog, postedAtAbort,
                   inFlightAtAbort, buVars, phVars, ndVars, ccVars>>

\* this.api.inviteNewUser(...) settles, inside its try block
MiInviteNewUser(i) ==
    /\ prep[i] = "inviteNewUser"
    /\ \/ /\ prep' = [prep EXCEPT ![i] = "invited"]
          /\ data' = Append(data, NewUserEntry(i))
          /\ UNCHANGED errors
       \/ /\ prep' = [prep EXCEPT ![i] = "inviteFailed"]
          /\ errors' = Append(errors, InviteError(i))
          /\ UNCHANGED data
    /\ UNCHANGED <<items, members, pc, transactions, result, post, postLog,
                   txIndex, invited, scOnly, grVars>>

\* Every callback has resolved: await Promise.all(...) returns and the
\* for-of loop over transactions begins.
MiPromiseAllResolves ==
    /\ pc = "prepare"
    /\ \A i \in DOMAIN items :
           prep[i] \in {"rejected", "queued", "invited", "inviteFailed"}
    /\ pc' = "loop"
    /\ txIndex' = 1
    /\ UNCHANGED <<items, members, prep, transactions, data, errors, result,
                   post, postLog, invited, scOnly, grVars>>

\* for (let tx of transactions): the next tx is posted, or the loop is over
\* and membershipInvite returns
MiLoop ==
    /\ pc = "loop"
    /\ IF txIndex > Len(transactions)
       THEN /\ MiReturn(data, errors)
            /\ UNCHANGED <<post, postLog, postedTags, postedData>>
       ELSE /\ post' = [post EXCEPT ![transactions[txIndex]] = "inflight"]
            /\ postLog' = Append(postLog, transactions[txIndex])
            /\ postedTags' = Append(postedTags, tags[transactions[txIndex]])
            /\ postedData' = Append(postedData, InputData(transactions[txIndex]))
            /\ pc' = "posting"
            /\ UNCHANGED result
    /\ UNCHANGED <<items, members, prep, transactions, data, errors, txIndex,
                   invited, groupRef, tags, groupRefCalls, uploads>>
    /\ UNCHANGED <<aborted, currentTx, stacksCreated,
                   processedStacksCount, pushLog, postedAtAbort,
                   inFlightAtAbort, buVars, phVars, ndVars, ccVars>>

\* postContractTransaction resolves
MiPostSucceeds ==
    /\ pc = "posting"
    /\ post' = [post EXCEPT ![transactions[txIndex]] = "ok"]
    /\ pc' = "processing"
    /\ UNCHANGED <<items, members, prep, transactions, data, errors, result,
                   postLog, txIndex, invited, scOnly, grVars>>

\* postContractTransaction rejects: the catch block of the loop
MiPostFails ==
    /\ pc = "posting"
    /\ post' = [post EXCEPT ![transactions[txIndex]] = "failed"]
    /\ errors' = Append(errors, PostError(transactions[txIndex]))
    /\ txIndex' = txIndex + 1
    /\ pc' = "loop"
    /\ UNCHANGED <<items, members, prep, transactions, data, result, postLog,
                   invited, scOnly, grVars>>

\* processMembership resolves; data.push(...)
MiProcessSucceeds ==
    /\ pc = "processing"
    /\ data' = Append(data, MembershipEntry(transactions[txIndex]))
    /\ txIndex' = txIndex + 1
    /\ pc' = "loop"
    /\ UNCHANGED <<items, members, prep, transactions, errors, result, post,
                   postLog, invited, scOnly, grVars>>

\* processMembership rejects: the same catch block
MiProcessFails ==
    /\ pc = "processing"
    /\ errors' = Append(errors, PostError(transactions[txIndex]))
    /\ txIndex' = txIndex + 1
    /\ pc' = "loop"
    /\ UNCHANGED <<items, members, prep, transactions, data, result, post,
                   postLog, invited, scOnly, grVars>>

NextMembershipInvite ==
    \/ MiSetContext
    \/ \E i \in DOMAIN items : MiExistsUser(i)
    \/ \E i \in DOMAIN items : MiUserData(i)
    \/ \E i \in DOMAIN items : MiUploadState(i)
    \/ \E i \in DOMAIN items : MiInviteNewUser(i)
    \/ MiPromiseAllResolves
    \/ MiLoop
    \/ MiPostSucceeds
    \/ MiPostFails
    \/ MiProcessSucceeds
    \/ MiProcessFails

SpecMembershipInvite == InitMembershipInvite /\ [][NextMembershipInvite]_vars

\* ------------------------------------------------------------ batchUpdate

MaxUpdates == 2

Vaults == {"v1", "v2"}
ObjectTypes == {"Stack", "Membership"}

\* node.__public__ and the keys of the vault a node belongs to
PublicVault(v) == v = "v2"
KeysOf(v) == IF PublicVault(v) THEN "null" ELSE <<"keys", v>>

\* Mutant: the returned object is decrypted whatever the vault.
ShouldDecrypt_Always(public) == TRUE

\* processNode(object, !this.isPublic, this.keys): the shouldDecrypt argument
ShouldDecrypt(public) == ~public

notBatchUpdate == <<aborted, prep, transactions, currentTx, stacksCreated,
                    processedStacksCount, data, errors, pushLog,
                    postedAtAbort, inFlightAtAbort, miVars, extVars>>

InitBatchUpdate ==
    /\ items \in SeqsUpTo([type : ObjectTypes, vaultId : Vaults], MaxUpdates)
    /\ \E v \in Vaults \cup {"null"} :
          /\ vaultId = v
          /\ isPublic = PublicVault(v)
          /\ keys = KeysOf(v)
    /\ pc = "start"
    /\ itemIndex = 0
    /\ failedItem = 0
    /\ result = NoResult
    /\ post = [i \in DOMAIN items |-> "none"]
    /\ postLog = <<>>
    /\ prep = <<>>
    /\ transactions = <<>>
    /\ data = <<>>
    /\ errors = <<>>
    /\ aborted = FALSE
    /\ currentTx = NoTx
    /\ stacksCreated = 0
    /\ processedStacksCount = 0
    /\ pushLog = <<>>
    /\ postedAtAbort = -1
    /\ inFlightAtAbort = FALSE
    /\ members = <<>>
    /\ txIndex = 0
    /\ invited = {}
    /\ IdleExt
    /\ InitGroupRef

\* A request of batchUpdate rejects: nothing catches it, the rejection
\* leaves the loop and batchUpdate throws.
BuRejected ==
    /\ pc' = "thrown"
    /\ failedItem' = itemIndex

\* Mutant: the context is set for the first item only.
NewContext_FirstOnly(index, id, nodeVaultId) == index = 1

\* itemIndex === 0 || this.vaultId !== node.vaultId, with the items counted
\* from 1
NewContext(index, id, nodeVaultId) == index = 1 \/ id # nodeVaultId

\* Mutant: batchUpdate returns the last entry of result only.
BuLoop_ReturnsLast(k, res) ==
    IF k > Len(items)
    THEN /\ pc' = "returned"
         /\ result' = [returned |-> TRUE,
                       data |-> IF Len(res) = 0 THEN res ELSE <<res[Len(res)]>>]
         /\ itemIndex' = k
    ELSE /\ pc' = "getNode"
         /\ itemIndex' = k
         /\ UNCHANGED result

\* for (const [itemIndex, item] of items.entries()): the loop goes to item
\* k (counted from 1 here), or is over and batchUpdate returns result
BuLoop(k, res) ==
    IF k > Len(items)
    THEN /\ pc' = "returned"
         /\ result' = [returned |-> TRUE, data |-> res]
         /\ itemIndex' = k
    ELSE /\ pc' = "getNode"
         /\ itemIndex' = k
         /\ UNCHANGED result

\* batchUpdate is called: setGroupRef, then the loop begins
BuStart ==
    /\ pc = "start"
    /\ groupRef' = setGroupRef(items, groupRefCalls + 1)
    /\ groupRefCalls' = groupRefCalls + 1
    /\ BuLoop(1, <<>>)
    /\ data' = <<>>
    /\ UNCHANGED <<items, post, postLog, vaultId, isPublic, keys, failedItem>>
    /\ UNCHANGED <<aborted, prep, transactions, currentTx, stacksCreated,
                   processedStacksCount, errors, pushLog, postedAtAbort,
                   inFlightAtAbort, miVars, extVars, tags, postedTags>>

\* await getMembership / getNode settles; on a new vault the context is
\* set and setMembershipKeys is awaited, otherwise getTxTags and the post
BuGetNode ==
    /\ pc = "getNode"
    /\ \/ /\ NewContext(itemIndex, vaultId, items[itemIndex].vaultId)
          /\ vaultId' = items[itemIndex].vaultId
          /\ isPublic' = PublicVault(items[itemIndex].vaultId)
          /\ pc' = "setMembershipKeys"
          /\ UNCHANGED <<post, postLog, failedItem, tags, postedTags>>
       \/ /\ ~NewContext(itemIndex, vaultId, items[itemIndex].vaultId)
          /\ pc' = "post"
          /\ post' = [post EXCEPT ![itemIndex] = "inflight"]
          /\ postLog' = Append(postLog, [item |-> itemIndex, vaultId |-> vaultId])
          /\ tags' = [tags EXCEPT ![itemIndex] = getTxTags(groupRef)]
          /\ postedTags' = Append(postedTags, tags'[itemIndex])
          /\ UNCHANGED <<vaultId, isPublic, failedItem>>
       \/ /\ BuRejected
          /\ UNCHANGED <<vaultId, isPublic, post, postLog, tags, postedTags>>
    /\ UNCHANGED <<items, itemIndex, keys, result>>
    /\ UNCHANGED <<notBatchUpdate, groupRef, groupRefCalls>>

\* await this.setMembershipKeys(node) settles; getTxTags and the post
BuSetMembershipKeys ==
    /\ pc = "setMembershipKeys"
    /\ \/ /\ keys' = KeysOf(items[itemIndex].vaultId)
          /\ pc' = "post"
          /\ post' = [post EXCEPT ![itemIndex] = "inflight"]
          /\ postLog' = Append(postLog, [item |-> itemIndex, vaultId |-> vaultId])
          /\ tags' = [tags EXCEPT ![itemIndex] = getTxTags(groupRef)]
          /\ postedTags' = Append(postedTags, tags'[itemIndex])
          /\ UNCHANGED failedItem
       \/ /\ BuRejected
          /\ UNCHANGED <<keys, post, postLog, tags, postedTags>>
    /\ UNCHANGED <<items, itemIndex, vaultId, isPublic, result>>
    /\ UNCHANGED <<notBatchUpdate, groupRef, groupRefCalls>>

\* await postContractTransaction settles
BuPost ==
    /\ pc = "post"
    /\ \/ /\ post' = [post EXCEPT ![itemIndex] = "ok"]
          /\ pc' = "process"
          /\ UNCHANGED failedItem
       \/ /\ post' = [post EXCEPT ![itemIndex] = "failed"]
          /\ BuRejected
    /\ UNCHANGED <<items, itemIndex, vaultId, isPublic, keys, result, postLog>>
    /\ UNCHANGED <<notBatchUpdate, grVars>>

\* await processMembership / processNode settles; result.push(...) and the
\* next pass of the loop
BuProcess ==
    /\ pc = "process"
    /\ \/ /\ data' = Append(data, [transactionId |-> <<"tx", itemIndex>>,
                                   item |-> itemIndex,
                                   decrypted |-> ShouldDecrypt(isPublic)])
          /\ BuLoop(itemIndex + 1, data')
          /\ UNCHANGED failedItem
       \/ /\ BuRejected
          /\ UNCHANGED <<data, itemIndex, result>>
    /\ UNCHANGED <<items, vaultId, isPublic, keys, post, postLog>>
    /\ UNCHANGED <<aborted, prep, transactions, currentTx, stacksCreated,
                   processedStacksCount, errors, pushLog, postedAtAbort,
                   inFlightAtAbort, miVars, extVars, grVars>>

NextBatchUpdate ==
    \/ BuStart
    \/ BuGetNode
    \/ BuSetMembershipKeys
    \/ BuPost
    \/ BuProcess

SpecBatchUpdate == InitBatchUpdate /\ [][NextBatchUpdate]_vars

\* ------------------------------------------------------------------ nodes

MaxOps == 3

Users == {"A", "B"}

\* No batch call is running on the service.
NoBatchCall ==
    /\ items = <<>>
    /\ aborted = FALSE
    /\ pc = "idle"
    /\ prep = <<>>
    /\ transactions = <<>>
    /\ currentTx = NoTx
    /\ stacksCreated = 0
    /\ processedStacksCount = 0
    /\ data = <<>>
    /\ errors = <<>>
    /\ result = NoResult
    /\ post = <<>>
    /\ pushLog = <<>>
    /\ postLog = <<>>
    /\ postedAtAbort = -1
    /\ inFlightAtAbort = FALSE
    /\ members = <<>>
    /\ txIndex = 0
    /\ invited = {}
    /\ itemIndex = 0
    /\ failedItem = 0
    /\ NoProgressHook
    /\ groupRef = NullRef
    /\ tags = <<>>
    /\ groupRefCalls = 0
    /\ postedTags = <<>>
    /\ uploads = <<>>
    /\ postedData = <<>>

notNode == <<scVars, miVars, buVars, phVars, grVars, ccVars, upVars>>

\* wallet.getAddress() and wallet.signingPublicKey() of a user
Address(u) == <<"address", u>>
SigningPublicKey(u) == <<"key", u>>

\* processWriteString(plain): a no-op in a public vault, otherwise the
\* string is encrypted with the keys of the vault.  Encrypting the same
\* string twice gives two different ciphertexts; n stands for the nonce.
processWriteString(plain, n) == IF isPublic THEN plain ELSE <<"enc", plain, n>>

\* processReadString(value): a no-op in a public vault, otherwise the
\* decryption of the value
processReadString(value) == IF isPublic THEN value ELSE value[2]

\* fileService.newVersion(file, fileUploadResult)
newVersion(file, now) == [name |-> file, createdAt |-> now]

\* Mutant: the state is built without its version.
BatchStackState_NoVersion(name, version) ==
    [name |-> name, versions |-> <<>>, tags |-> <<>>]

\* BatchService.stackCreate: state = { name, versions: [version], tags }
BatchStackState(name, version) ==
    [name |-> name, versions |-> <<version>>, tags |-> <<>>]

\* StackService.create, which NoteService.create delegates to: the state
\* of a new stack holds the version of the uploaded file
StackState(name, version) ==
    [name |-> name, versions |-> <<version>>, tags |-> <<>>]

\* memoVersion(message)
memoVersion(owner, message, now) ==
    [owner |-> owner, message |-> processWriteString(message, now),
     createdAt |-> now, reactions |-> <<>>, attachments |-> <<>>]

\* MemoService.create: state = { versions: [memoVersion], tags }
MemoState(version) == [versions |-> <<version>>, tags |-> <<>>]

\* Mutant: the state the first data pointer refers to is read.
Current_First(n) == n.data[1]

\* the state the last data pointer of an object refers to
Current(n) == n.data[Len(n.data)]

\* StackService.uploadRevision: the version of the new file is appended
\* to the versions of the current state
StackUploadRevision(state, version) ==
    [state EXCEPT !.versions = Append(@, version)]

\* Mutant: the note is written anew with the revision as its only version.
NoteUploadRevision_Replace(state, content, now) ==
    [state EXCEPT !.versions = <<newVersion(content, now)>>]

\* NoteService.uploadRevision: the content is wrapped as a file and handed
\* to stackService.uploadRevision
NoteUploadRevision(state, content, now) ==
    StackUploadRevision(state, newVersion(content, now))

\* Mutant: the renamed stack is written anew, without its versions.
RenameState_Fresh(state, name, now) ==
    [name |-> processWriteString(name, now), versions |-> <<>>, tags |-> <<>>]

\* nodeRename(name): the current state with the new, encrypted name
RenameState(state, name, now) ==
    [state EXCEPT !.name = processWriteString(name, now)]

\* Mutant: restore posts the function of revoke.
FunctionOf_RestoreRevokes(op) ==
    CASE op = "revoke" -> "NODE_REVOKE"
      [] op = "restore" -> "NODE_REVOKE"
      [] op = "delete" -> "NODE_DELETE"
      [] op = "move" -> "NODE_MOVE"

\* input.function of BatchService.revoke, restore, delete and move
FunctionOf(op) ==
    CASE op = "revoke" -> "NODE_REVOKE"
      [] op = "restore" -> "NODE_RESTORE"
      [] op = "delete" -> "NODE_DELETE"
      [] op = "move" -> "NODE_MOVE"

\* The ledger's precondition of a function on a node in a given status:
\* ACTIVE <-> REVOKED by revoke and restore, ACTIVE or REVOKED -> DELETED by
\* delete, no way out of DELETED; move and update need ACTIVE or REVOKED.
Accepts(status, function) ==
    CASE function = "NODE_CREATE" -> status = "NONE"
      [] function = "NODE_REVOKE" -> status = "ACTIVE"
      [] function = "NODE_RESTORE" -> status = "REVOKED"
      [] function = "NODE_DELETE" -> status \in {"ACTIVE", "REVOKED"}
      [] function = "NODE_MOVE" -> status \in {"ACTIVE", "REVOKED"}
      [] function = "NODE_UPDATE" -> status \in {"ACTIVE", "REVOKED"}

\* The object after the ledger has applied an accepted transaction.
Apply(n, tx) ==
    CASE tx.function = "NODE_CREATE" ->
            [type |-> tx.type, status |-> "ACTIVE", parentId |-> tx.parentId,
             data |-> <<tx.data>>]
      [] tx.function = "NODE_REVOKE" -> [n EXCEPT !.status = "REVOKED"]
      [] tx.function = "NODE_RESTORE" -> [n EXCEPT !.status = "ACTIVE"]
      [] tx.function = "NODE_DELETE" -> [n EXCEPT !.status = "DELETED"]
      [] tx.function = "NODE_MOVE" -> [n EXCEPT !.parentId = tx.parentId]
      [] tx.function = "NODE_UPDATE" -> [n EXCEPT !.data = Append(@, tx.data)]

\* How the requests of an operation that end in postContractTransaction(tx)
\* settle: a request before the post rejects and the post is never made; or
\* the post is made and fails on its way; or it reaches the ledger, which
\* applies the transaction if its precondition holds and rejects it if not.
Settle(op, n, user, tx, read) ==
    \E how \in {"before", "transport", "ledger"} :
        LET ok == how = "ledger" /\ Accepts(node.status, tx.function) IN
        /\ node' = IF ok THEN Apply(node, tx) ELSE node
        /\ outcome' = [op |-> op, n |-> n, user |-> user, tx |-> tx,
                       read |-> read, before |-> node,
                       posted |-> how # "before",
                       result |-> IF how # "ledger" THEN "transport"
                                  ELSE IF ok THEN "ok" ELSE "precondition"]

\* objectType of the service that creates the node: a note is a stack
TypeOf(kind) == IF kind = "memoCreate" THEN "Memo" ELSE "Stack"

\* the state a create operation builds and uploads
CreateState(kind, user, now) ==
    CASE kind = "batchStackCreate" ->
            BatchStackState(processWriteString("n1", now), newVersion("f1", now))
      [] kind \in {"stackCreate", "noteCreate"} ->
            StackState(processWriteString("n1", now), newVersion("f1", now))
      [] kind = "memoCreate" ->
            MemoState(memoVersion(Address(user), "hello", now))

InitNode ==
    /\ NoBatchCall
    /\ calls = <<>>
    /\ vaultId = "v1"
    /\ isPublic \in BOOLEAN
    /\ keys = IF isPublic THEN "null" ELSE <<"keys", "v1">>
    /\ node = NoNode
    /\ pending = [u \in Users |-> NoOp]
    /\ outcome = NoOutcome
    /\ opCount = 0

\* BatchService.stackCreate for one item, StackService.create,
\* NoteService.create, MemoService.create: a node with a new id is created
NodeCreate(kind, user) ==
    /\ opCount < MaxOps
    /\ node.status = "NONE"
    /\ opCount' = opCount + 1
    /\ Settle(kind, opCount', user,
              [function |-> "NODE_CREATE", type |-> TypeOf(kind),
               parentId |-> Null, data |-> CreateState(kind, user, opCount')],
              NoOp)
    /\ UNCHANGED <<pending, notNode>>

\* BatchService.revoke, restore, delete, move of the node (batchUpdate with
\* one item), as Akord.stackRevoke, stackRestore, stackDelete and stackMove:
\* the node is fetched, then the transaction is posted
NodeUpdate(op, user) ==
    /\ opCount < MaxOps
    /\ node.status # "NONE"
    /\ opCount' = opCount + 1
    /\ Settle(op, opCount', user,
              [function |-> FunctionOf(op), parentId |-> "folder"], node)
    /\ UNCHANGED <<pending, notNode>>

\* Akord.stackRename: nodeRename(name)
NodeRename(user) ==
    /\ opCount < MaxOps
    /\ node.status # "NONE"
    /\ node.type = "Stack"
    /\ opCount' = opCount + 1
    /\ Settle("rename", opCount', user,
              [function |-> "NODE_UPDATE",
               data |-> RenameState(Current(node), "n2", opCount')],
              Current(node))
    /\ UNCHANGED <<pending, notNode>>

\* StackService.uploadRevision and NoteService.uploadRevision
UploadRevision(kind, user) ==
    /\ opCount < MaxOps
    /\ node.status # "NONE"
    /\ node.type = "Stack"
    /\ opCount' = opCount + 1
    /\ Settle(kind, opCount', user,
              [function |-> "NODE_UPDATE",
               data |-> IF kind = "noteUploadRevision"
                        THEN NoteUploadRevision(Current(node), "f2", opCount')
                        ELSE StackUploadRevision(Current(node),
                                                 newVersion("f2", opCount'))],
              Current(node))
    /\ UNCHANGED <<pending, notNode>>

NextNode ==
    \/ \E kind \in {"batchStackCreate", "stackCreate", "noteCreate",
                    "memoCreate"} : NodeCreate(kind, "A")
    \/ \E op \in {"revoke", "restore", "delete", "move"} : NodeUpdate(op, "A")
    \/ NodeRename("A")
    \/ \E kind \in {"stackUploadRevision", "noteUploadRevision"} :
          UploadRevision(kind, "A")

SpecNode == InitNode /\ [][NextNode]_vars

\* ------------------------------- batchUpdate calls on one batch service

\* The items of the calls: the vault of each node.
ItemLists == {<<"v1">>, <<"v2">>, <<"v1", "v1">>, <<"v1", "v2">>}

\* Two calls of batchUpdate (revoke, restore, delete or move) are made on
\* the same BatchService before either has got its first response.
InitConcurrentUpdate ==
    /\ NoBatchCall
    /\ NoNodeOps
    /\ \E v \in Vaults \cup {"null"} :
          /\ vaultId = v
          /\ isPublic = PublicVault(v)
          /\ keys = KeysOf(v)
    /\ calls \in [{1, 2} -> [items : ItemLists, pc : {"start"}, itemIndex : {0},
                             groupRef : {NullRef}, serviceRef : {NullRef},
                             posted : {<<>>}, result : {<<>>}]]

notConcurrentUpdate == <<scVars, miVars, itemIndex, failedItem, phVars, ndVars,
                         tags, postedTags, upVars>>

\* The call goes to its next item, or returns when there is none.
CallLoop(call, k) ==
    [call EXCEPT !.itemIndex = k,
                 !.pc = IF k > Len(call.items) THEN "returned" ELSE "getNode"]

\* const service = new NodeService(this.wallet, this.api, this): the new
\* service takes the context of the batch service as it is now;
\* service.getTxTags() is awaited
CallNewService(call) ==
    [call EXCEPT !.serviceRef = groupRef, !.pc = "getTxTags"]

\* batchUpdate is called: this.setGroupRef(items), then the loop begins
CallStart(c) ==
    /\ calls[c].pc = "start"
    /\ groupRef' = setGroupRef(calls[c].items, groupRefCalls + 1)
    /\ groupRefCalls' = groupRefCalls + 1
    /\ calls' = [calls EXCEPT ![c] = CallLoop([@ EXCEPT !.groupRef = groupRef'], 1)]
    /\ UNCHANGED <<vaultId, isPublic, keys, notConcurrentUpdate>>

\* await getNode settles: on the first item, or when this.vaultId is not
\* the vault of the node, the context is set and setMembershipKeys awaited
CallGetNode(c) ==
    /\ calls[c].pc = "getNode"
    /\ LET v == calls[c].items[calls[c].itemIndex] IN
       \/ /\ NewContext(calls[c].itemIndex, vaultId, v)
          /\ vaultId' = v
          /\ isPublic' = PublicVault(v)
          /\ calls' = [calls EXCEPT ![c].pc = "setMembershipKeys"]
       \/ /\ ~NewContext(calls[c].itemIndex, vaultId, v)
          /\ calls' = [calls EXCEPT ![c] = CallNewService(@)]
          /\ UNCHANGED <<vaultId, isPublic>>
       \/ /\ calls' = [calls EXCEPT ![c].pc = "thrown"]
          /\ UNCHANGED <<vaultId, isPublic>>
    /\ UNCHANGED <<keys, groupRef, groupRefCalls, notConcurrentUpdate>>

\* await this.setMembershipKeys(node) settles
CallSetMembershipKeys(c) ==
    /\ calls[c].pc = "setMembershipKeys"
    /\ \/ /\ keys' = KeysOf(calls[c].items[calls[c].itemIndex])
          /\ calls' = [calls EXCEPT ![c] = CallNewService(@)]
       \/ /\ calls' = [calls EXCEPT ![c].pc = "thrown"]
          /\ UNCHANGED keys
    /\ UNCHANGED <<vaultId, isPublic, groupRef, groupRefCalls,
                   notConcurrentUpdate>>

\* await service.getTxTags() settles:
\* postContractTransaction(this.vaultId, item.input, service.arweaveTags)
CallGetTxTags(c) ==
    /\ calls[c].pc = "getTxTags"
    /\ \/ calls' = [calls EXCEPT
                       ![c].pc = "post",
                       ![c].posted = Append(@, [item |-> calls[c].itemIndex,
                                                vaultId |-> vaultId,
                                                tags |-> getTxTags(calls[c].serviceRef)])]
       \/ calls' = [calls EXCEPT ![c].pc = "thrown"]
    /\ UNCHANGED <<vaultId, isPublic, keys, groupRef, groupRefCalls,
                   notConcurrentUpdate>>

\* await postContractTransaction settles:
\* processNode(object, !this.isPublic, this.keys) is awaited
CallPost(c) ==
    /\ calls[c].pc = "post"
    /\ \/ calls' = [calls EXCEPT
                       ![c].pc = "process",
                       ![c].result = Append(@, [item |-> calls[c].itemIndex,
                                                decrypted |-> ShouldDecrypt(isPublic),
                                                keys |-> keys])]
       \/ calls' = [calls EXCEPT ![c].pc = "thrown"]
    /\ UNCHANGED <<vaultId, isPublic, keys, groupRef, groupRefCalls,
                   notConcurrentUpdate>>

\* await processNode settles; result.push(...) and the next pass of the loop
CallProcess(c) ==
    /\ calls[c].pc = "process"
    /\ \/ calls' = [calls EXCEPT ![c] = CallLoop(@, calls[c].itemIndex + 1)]
       \/ calls' = [calls EXCEPT ![c].pc = "thrown"]
    /\ UNCHANGED <<vaultId, isPublic, keys, groupRef, groupRefCalls,
                   notConcurrentUpdate>>

NextConcurrentUpdate ==
    \E c \in DOMAIN calls :
        \/ CallStart(c)
        \/ CallGetNode(c)
        \/ CallSetMembershipKeys(c)
        \/ CallGetTxTags(c)
        \/ CallPost(c)
        \/ CallProcess(c)

SpecConcurrentUpdate == InitConcurrentUpdate /\ [][NextConcurrentUpdate]_vars

\* ------------------------------------------------------------------ memos

MaxMemoOps == 2

Emojis == {"up", "heart"}

\* a field a record does not have
NoField == <<>>

\* memoReaction(reactionEmoji): { reaction, owner, createdAt }
memoReaction(user, emoji, now) ==
    [reaction |-> processWriteString(emoji, now), owner |-> Address(user),
     address |-> NoField, publicSigningKey |-> NoField, createdAt |-> now]

\* The reactions the last version of a memo may hold before the operations
\* start, each by user, emoji and the field that names the user: owner, or
\* address or publicSigningKey as getReactionIndex still reads them on older
\* entries.
Entries ==
    {<<>>,
     <<<<"A", "up", "owner">>>>,
     <<<<"A", "up", "owner">>, <<"B", "up", "owner">>>>,
     <<<<"B", "up", "owner">>, <<"A", "up", "owner">>>>,
     <<<<"A", "up", "owner">>, <<"A", "up", "owner">>>>,
     <<<<"A", "up", "publicSigningKey">>, <<"A", "up", "owner">>>>,
     <<<<"A", "heart", "address">>, <<"B", "up", "owner">>>>}

\* the entry at position i of n, written before the operations start
EntryReaction(e, i, n) ==
    [reaction |-> processWriteString(e[2], i - n - 1),
     owner |-> IF e[3] = "owner" THEN Address(e[1]) ELSE NoField,
     address |-> IF e[3] = "address" THEN Address(e[1]) ELSE NoField,
     publicSigningKey |-> IF e[3] = "publicSigningKey"
                          THEN SigningPublicKey(e[1]) ELSE NoField,
     createdAt |-> i - n - 1]

\* newState.versions[newState.versions.length - 1]
LastVersion(state) == state.versions[Len(state.versions)]

\* Mutant: the reaction is put in front of the reactions of the last version.
addReaction_Unshift(state, entry) ==
    [state EXCEPT !.versions[Len(state.versions)].reactions = <<entry>> \o @]

\* addReaction: the clone of the current state with the reaction pushed on
\* the reactions of its last version
addReaction(state, entry) ==
    [state EXCEPT !.versions[Len(state.versions)].reactions = Append(@, entry)]

\* the key Object.entries gives the element at position i of an array: its
\* index counted from 0
EntryKey(i) == i - 1

NoKey == -1

\* Mutant: getReactionIndex returns when no entry matches.
ThrowsNotFound_Never(key) == FALSE

\* throw new NotFound(...): no entry of the reactions matched
ThrowsNotFound(key) == key = NoKey

\* Mutant: the new state is the fetched object itself, so the object shows
\* what was done to the new state.
cloneDeepWith_Alias(value, changed) == changed

\* lodash.cloneDeepWith(value): the object that was cloned, after the clone
\* has been changed into changed; the clone shares nothing with it
cloneDeepWith(value, changed) == value

\* Mutant: the user of the entry is not looked at.
getReactionIndex_AnyUser(reactions, reaction, user) ==
    LET found == {i \in DOMAIN reactions :
                     reaction = processReadString(reactions[i].reaction)} IN
    IF found = {} THEN NoKey
    ELSE EntryKey(CHOOSE i \in found : \A j \in found : i <= j)

\* getReactionIndex(reactions, reaction): the key of the first entry that is
\* the wallet's and decrypts to the reaction; NoKey where it throws NotFound
getReactionIndex(reactions, reaction, user) ==
    LET found == {i \in DOMAIN reactions :
                     /\ \/ reactions[i].owner = Address(user)
                        \/ reactions[i].address = Address(user)
                        \/ reactions[i].publicSigningKey = SigningPublicKey(user)
                     /\ reaction = processReadString(reactions[i].reaction)} IN
    IF found = {} THEN NoKey
    ELSE EntryKey(CHOOSE i \in found : \A j \in found : i <= j)

\* Mutant: splice(start) without a count takes out the rest of the array.
splice_ToEnd(array, start) == SubSeq(array, 1, start)

\* array.splice(start, 1): the element at index start, counted from 0, is
\* taken out
splice(array, start) ==
    [j \in 1..(Len(array) - 1) |-> IF j <= start THEN array[j] ELSE array[j + 1]]

\* deleteReaction: the clone of the current state without the entry at index
deleteReaction(state, index) ==
    [state EXCEPT !.versions[Len(state.versions)].reactions = splice(@, index)]

InitMemo ==
    /\ NoBatchCall
    /\ calls = <<>>
    /\ vaultId = "v1"
    /\ isPublic \in BOOLEAN
    /\ keys = IF isPublic THEN "null" ELSE <<"keys", "v1">>
    /\ \E es \in Entries, older \in BOOLEAN :
          LET last == [memoVersion(Address("A"), "hello", 0) EXCEPT
                          !.reactions = [i \in DOMAIN es |->
                                            EntryReaction(es[i], i, Len(es))]]
              first == [memoVersion(Address("B"), "hi", 0) EXCEPT
                          !.reactions = <<EntryReaction(<<"B", "heart", "owner">>, 1, 1)>>]
          IN node = [type |-> "Memo", status |-> "ACTIVE", parentId |-> Null,
                     data |-> <<[versions |-> IF older THEN <<first, last>>
                                              ELSE <<last>>,
                                 tags |-> <<>>]>>]
    /\ pending = [u \in Users |-> NoOp]
    /\ outcome = NoOutcome
    /\ opCount = 0

\* MemoService.addReaction up to uploadState: the current state is fetched
\* and the new state is built from it
AddReactionRead(user, reaction) ==
    /\ opCount < MaxMemoOps
    /\ pending[user] = NoOp
    /\ opCount' = opCount + 1
    /\ LET newState == addReaction(Current(node),
                                   memoReaction(user, reaction, opCount'))
       IN pending' = [pending EXCEPT ![user] =
                         [op |-> "addReaction", reaction |-> reaction,
                          n |-> opCount',
                          currentState |-> cloneDeepWith(Current(node), newState),
                          newState |-> newState]]
    /\ UNCHANGED <<node, outcome, notNode>>

\* MemoService.removeReaction up to uploadState: deleteReaction fetches the
\* current state and looks the reaction up; NotFound ends the operation
RemoveReactionRead(user, reaction) ==
    /\ opCount < MaxMemoOps
    /\ pending[user] = NoOp
    /\ opCount' = opCount + 1
    /\ LET currentState == Current(node)
           index == getReactionIndex(LastVersion(currentState).reactions,
                                     reaction, user)
           call == [op |-> "removeReaction", reaction |-> reaction,
                    n |-> opCount', currentState |-> currentState]
       IN IF ThrowsNotFound(index)
          THEN /\ outcome' = [op |-> "removeReaction", n |-> opCount',
                              user |-> user, read |-> call, before |-> node,
                              posted |-> FALSE, result |-> "NotFound"]
               /\ UNCHANGED pending
          ELSE /\ pending' = [pending EXCEPT ![user] =
                                 [op |-> "removeReaction", reaction |-> reaction,
                                  n |-> opCount',
                                  currentState |->
                                      cloneDeepWith(currentState,
                                          deleteReaction(currentState, index)),
                                  newState |-> deleteReaction(currentState, index)]]
               /\ UNCHANGED outcome
    /\ UNCHANGED <<node, notNode>>

\* addReaction and removeReaction from uploadState on: the new state is
\* uploaded and the NODE_UPDATE that points at it is posted
MemoPost(user) ==
    /\ pending[user] # NoOp
    /\ Settle(pending[user].op, pending[user].n, user,
              [function |-> "NODE_UPDATE", data |-> pending[user].newState],
              pending[user])
    /\ pending' = [pending EXCEPT ![user] = NoOp]
    /\ UNCHANGED <<opCount, notNode>>

NextMemo ==
    \/ \E user \in Users, reaction \in Emojis : AddReactionRead(user, reaction)
    \/ \E user \in Users, reaction \in Emojis : RemoveReactionRead(user, reaction)
    \/ \E user \in Users : MemoPost(user)

SpecMemo == InitMemo /\ [][NextMemo]_vars

\* ---------------------------------------------------------------- queries

MaxPage == 2
MaxChunks == 2

\* NoteTypes: MD = "text/markdown", JSON = "application/json"
NoteTypes == {"text/markdown", "application/json"}

\* the MIME types of the versions of the stacks of a vault, oldest first
VersionTypes ==
    {<<"text/markdown">>, <<"application/pdf">>,
     <<"application/json", "application/pdf">>,
     <<"application/pdf", "application/json">>,
     <<"image/png", "application/pdf", "text/markdown">>}

\* the versions of a stack: each has a name, a type and the url of its file
VersionsOf(types) ==
    [i \in DOMAIN types |->
        [name |-> <<"f", i>>, type |-> types[i], resourceUrl |-> <<"url", i>>]]

\* index is not given
NoIndex == <<>>

\* a thrown error
Error(name) == [kind |-> "error", name |-> name]

\* Stack.getVersion(index) and StackService.getVersion(stackId, index): the
\* version at the index, counted from 0, and the last version without one
getVersion(versions, index) ==
    IF index = NoIndex THEN versions[Len(versions)]
    ELSE IF index[1] + 1 \in DOMAIN versions THEN versions[index[1] + 1]
    ELSE Error("Error")

\* getStackFile: if (index) { files[index] or throw } else the last file;
\* the index is a string, which is falsy only when empty
getStackFile(files, index) ==
    IF index # NoIndex
    THEN IF index[1] + 1 \in DOMAIN files THEN files[index[1] + 1]
         ELSE Error("Error")
    ELSE files[Len(files)]

\* Mutant: a stack of a type that is no note type passes too.
isValidNoteType_Any(type) == TRUE

\* isValidNoteType(type): Object.values(NoteTypes).includes(type)
isValidNoteType(type) == type \in NoteTypes

\* NoteService.list on the page stackService.list returned
list(stacks) ==
    [items |-> SelectSeq(stacks.items,
                         LAMBDA stack :
                             isValidNoteType(getVersion(stack.versions, NoIndex).type)),
     nextToken |-> stacks.nextToken]

\* Mutant: a failure of memo.decrypt() is passed on as it is.
processMemo_Rethrow(shouldDecrypt, decryptFails) ==
    IF shouldDecrypt /\ decryptFails THEN Error("Error")
    ELSE [kind |-> "memo", decrypted |-> shouldDecrypt]

\* processMemo(object, shouldDecrypt, keys): memo.decrypt() is called only
\* if shouldDecrypt, and what it throws is caught and replaced
processMemo(shouldDecrypt, decryptFails) ==
    IF shouldDecrypt /\ decryptFails THEN Error("IncorrectEncryptionKey")
    ELSE [kind |-> "memo", decrypted |-> shouldDecrypt]

\* let fileBinary
NoBuffer == [kind |-> "undefined"]

\* the decrypted content of chunk number k of a file
ChunkData(k) == [kind |-> "buffer", bytes |-> <<<<"byte", k>>>>]

\* Mutant: the second buffer is put in front of the first.
appendBuffer_Reversed(buffer1, buffer2) ==
    IF buffer1 = NoBuffer /\ buffer2 = NoBuffer THEN NoBuffer
    ELSE IF buffer1 = NoBuffer THEN buffer2
    ELSE IF buffer2 = NoBuffer THEN buffer1
    ELSE [kind |-> "buffer", bytes |-> buffer2.bytes \o buffer1.bytes]

\* _appendBuffer(buffer1, buffer2)
appendBuffer(buffer1, buffer2) ==
    IF buffer1 = NoBuffer /\ buffer2 = NoBuffer THEN NoBuffer
    ELSE IF buffer1 = NoBuffer THEN buffer2
    ELSE IF buffer2 = NoBuffer THEN buffer1
    ELSE [kind |-> "buffer", bytes |-> buffer1.bytes \o buffer2.bytes]

\* The while loop of getFile from currentChunk on.  settle[k + 1] tells how
\* the requests for chunk k settle: "ok", or the downloadFile or the
\* processReadRaw that rejects.  urls are the urls downloaded so far.
RECURSIVE getFileChunked(_, _, _, _)
getFileChunked(settle, currentChunk, fileBinary, urls) ==
    IF currentChunk < Len(settle)
    THEN LET url == <<"id", currentChunk>> IN
         IF settle[currentChunk + 1] = "ok"
         THEN getFileChunked(settle, currentChunk + 1,
                             appendBuffer(fileBinary, ChunkData(currentChunk)),
                             Append(urls, url))
         ELSE [kind |-> "error", name |-> "Failed to download",
               urls |-> Append(urls, url)]
    ELSE [kind |-> "file", urls |-> urls, file |-> fileBinary]

\* how the requests for one chunk or file settle
Settles == {"ok", "downloadFile", "processReadRaw"}

\* A stack of the vault with one data pointer, and no query made.
InitQueries ==
    /\ NoBatchCall
    /\ calls = <<>>
    /\ vaultId = "v1"
    /\ isPublic \in BOOLEAN
    /\ keys = IF isPublic THEN "null" ELSE <<"keys", "v1">>
    /\ \E types \in VersionTypes :
          node = [type |-> "Stack", status |-> "ACTIVE", parentId |-> Null,
                  data |-> <<[name |-> "n1", versions |-> VersionsOf(types),
                              tags |-> <<>>]>>]
    /\ pending = [u \in Users |-> NoOp]
    /\ outcome = NoOutcome
    /\ opCount = 0

\* a query returns or throws: the call and its result are recorded
Returns(call, value) ==
    /\ opCount' = opCount + 1
    /\ outcome' = [op |-> call.op, n |-> opCount', call |-> call,
                   result |-> value]
    /\ UNCHANGED <<node, pending, notNode>>

\* processMemo on an object the API returned
ProcessMemo(shouldDecrypt, decryptFails) ==
    /\ opCount < MaxOps
    /\ Returns([op |-> "processMemo", shouldDecrypt |-> shouldDecrypt,
                decryptFails |-> decryptFails],
               processMemo(shouldDecrypt, decryptFails))

\* NoteService.list: stackService.list resolves with a page of stacks
NoteList(types, nextToken) ==
    LET stacks == [items |-> [i \in DOMAIN types |->
                                 [id |-> i, versions |-> VersionsOf(types[i])]],
                   nextToken |-> nextToken]
    IN /\ opCount < MaxOps
       /\ Returns([op |-> "list", stacks |-> stacks], list(stacks))

\* NoteService.getVersion(noteId, index), StackService.getVersion
GetVersion(index) ==
    /\ opCount < MaxOps
    /\ node.type = "Stack"
    /\ Returns([op |-> "getVersion", index |-> index],
               getVersion(Current(node).versions, index))

\* Akord.getStackFile(stackId, index), up to this.getFile(file.resourceUrl)
GetStackFile(index) ==
    /\ opCount < MaxOps
    /\ node.type = "Stack"
    /\ Returns([op |-> "getStackFile", index |-> index],
               getStackFile(Current(node).versions, index))

\* Akord.getFile(id, vaultId, isChunked, numberOfChunks): setVaultContext,
\* then the chunks, or the file in one piece
GetFile(context, isChunked, settle) ==
    /\ opCount < MaxOps
    /\ Returns([op |-> "getFile", context |-> context, isChunked |-> isChunked,
                numberOfChunks |-> Len(settle), settle |-> settle],
               IF ~context THEN Error("Error")
               ELSE IF isChunked THEN getFileChunked(settle, 0, NoBuffer, <<>>)
               ELSE IF settle[1] = "ok"
                    THEN [kind |-> "file", urls |-> <<<<"id">>>>,
                          file |-> ChunkData(0)]
                    ELSE Error("Error"))

NextQueries ==
    \/ \E shouldDecrypt \in BOOLEAN, decryptFails \in BOOLEAN :
          ProcessMemo(shouldDecrypt, decryptFails)
    \/ \E types \in SeqsUpTo(VersionTypes, MaxPage), nextToken \in {"null", "t1"} :
          NoteList(types, nextToken)
    \/ \E index \in {NoIndex, <<0>>, <<1>>, <<2>>, <<3>>} : GetVersion(index)
    \/ \E index \in {NoIndex, <<0>>, <<1>>, <<2>>, <<3>>} : GetStackFile(index)
    \/ \E context \in BOOLEAN, isChunked \in BOOLEAN :
          \E settle \in SeqsUpTo(Settles, MaxChunks) :
              /\ Len(settle) >= 1
              /\ ~isChunked => Len(settle) = 1
              /\ GetFile(context, isChunked, settle)

SpecQueries == InitQueries /\ [][NextQueries]_vars

\* A memo or a stack, and the operations that read its current state.
InitCurrentState == InitMemo \/ InitQueries

NextCurrentState ==
    \/ node.type = "Memo" /\ NextMemo
    \/ \E index \in {NoIndex, <<0>>, <<1>>, <<2>>, <<3>>} : GetVersion(index)
    \/ \E index \in {NoIndex, <<0>>, <<1>>, <<2>>, <<3>>} : GetStackFile(index)

SpecCurrentState == InitCurrentState /\ [][NextCurrentState]_vars

\* --------------------------------------------------- AkordApi.uploadData

MaxUploads == 3

\* Mutant: the id is pushed on resources when its upload completes.
SetAt_Push(resources, index, resource) == Append(resources, resource)

\* resources[index] = resource, with the indices counted from 1: an array
\* that is too short grows, and the elements not yet set are holes
SetAt(resources, index, resource) ==
    [k \in 1..(IF index > Len(resources) THEN index ELSE Len(resources)) |->
        IF k = index THEN resource
        ELSE IF k <= Len(resources) THEN resources[k] ELSE NoId]

\* uploadData(items) is called: resources = [], and items.map has started
\* the upload of every item; Promise.all is awaited.  pushLog lists the
\* items in the order in which their uploads complete.
InitUploadData ==
    /\ items \in SeqsUpTo([data : {"d1", "d2"}], MaxUploads)
    /\ pc = "prepare"
    /\ prep = [i \in DOMAIN items |-> "uploadState"]
    /\ uploads = <<>>
    /\ pushLog = <<>>
    /\ result = NoResult
    /\ post = <<>>
    /\ postLog = <<>>
    /\ postedData = <<>>
    /\ transactions = <<>>
    /\ data = <<>>
    /\ errors = <<>>
    /\ aborted = FALSE
    /\ currentTx = NoTx
    /\ stacksCreated = 0
    /\ processedStacksCount = 0
    /\ postedAtAbort = -1
    /\ inFlightAtAbort = FALSE
    /\ members = <<>>
    /\ txIndex = 0
    /\ invited = {}
    /\ itemIndex = 0
    /\ failedItem = 0
    /\ vaultId = "null"
    /\ isPublic = FALSE
    /\ keys = "null"
    /\ groupRef = NullRef
    /\ tags = <<>>
    /\ groupRefCalls = 0
    /\ postedTags = <<>>
    /\ calls = <<>>
    /\ NoProgressHook
    /\ NoNodeOps

\* new ApiClient()...uploadState() of item i settles: the id is stored at
\* the index of the item, or the callback rejects and uploadData throws
UdUploadState(i) ==
    /\ prep[i] = "uploadState"
    /\ \/ /\ prep' = [prep EXCEPT ![i] = "uploaded"]
          /\ uploads' = SetAt(uploads, i, StateId(i))
          /\ pushLog' = Append(pushLog, i)
          /\ UNCHANGED pc
       \/ /\ prep' = [prep EXCEPT ![i] = "failed"]
          /\ pc' = PcAfterRejection
          /\ UNCHANGED <<uploads, pushLog>>
    /\ UNCHANGED <<items, transactions, data, errors, result, post, postLog,
                   postedData, aborted, currentTx, stacksCreated,
                   processedStacksCount, postedAtAbort, inFlightAtAbort,
                   miVars, buVars, phVars, ndVars, ccVars, grVars>>

\* every callback has resolved: await Promise.all returns; return resources
UdReturn ==
    /\ pc = "prepare"
    /\ \A i \in DOMAIN items : prep[i] = "uploaded"
    /\ pc' = "returned"
    /\ result' = [returned |-> TRUE, data |-> uploads]
    /\ UNCHANGED <<items, prep, transactions, data, errors, post, postLog,
                   pushLog, upVars, aborted, currentTx, stacksCreated,
                   processedStacksCount, postedAtAbort, inFlightAtAbort,
                   miVars, buVars, phVars, ndVars, ccVars, grVars>>

NextUploadData ==
    \/ \E i \in DOMAIN items : UdUploadState(i)
    \/ UdReturn

SpecUploadData == InitUploadData /\ [][NextUploadData]_vars

\* ------------------------------------------------- claims on stackCreate

AllPosted == \A i \in DOMAIN items : post[i] \in {"ok", "failed"}

\* C1 (as claimed): when every item is prepared, k >= 1 of the N posts fail
\* (and nothing else does) and no cancellation is signalled, stackCreate
\* returns, with N-k entries in data, k entries in errors and cancelled = 0.
\* The premise is the state in which all N posts have settled that way.
C1_PartialFailureReturns ==
    (/\ AllPosted
     /\ PostsFailed # {}
     /\ Len(errors) = Cardinality(PostsFailed)
     /\ Len(data) = Cardinality(PostsSucceeded)
     /\ ~aborted)
    ~> (\/ aborted
        \/ /\ pc = "returned"
           /\ Len(result.data) = Len(items) - Cardinality(PostsFailed)
           /\ Len(result.errors) = Cardinality(PostsFailed)
           /\ result.cancelled = 0)

\* C2 (as claimed): with no errors, if the signal fires after exactly k < N
\* posts have succeeded, the result has data.length = k, cancelled = N - k.
C2_CancelledAfterK ==
    (/\ pc = "returned"
     /\ aborted
     /\ errors = <<>>
     /\ postedAtAbort < Len(items))
    => /\ Len(result.data) = postedAtAbort
       /\ result.cancelled = Len(items) - postedAtAbort

\* C2 (amended): with no errors, if the signal fires after exactly k < N
\* posts have succeeded, the result has data.length = k and
\* cancelled = N - k, unless a post was in flight when the signal fired:
\* that post finishes and the result has data.length = k + 1 and
\* cancelled = N - k - 1.
C2_CancelledAfterKOrInFlight ==
    (/\ pc = "returned"
     /\ aborted
     /\ errors = <<>>
     /\ postedAtAbort < Len(items))
    => LET d == IF inFlightAtAbort THEN postedAtAbort + 1 ELSE postedAtAbort
       IN  /\ Len(result.data) = d
           /\ result.cancelled = Len(items) - d

C2_Witness ==
    /\ pc = "returned"
    /\ aborted
    /\ errors = <<>>
    /\ inFlightAtAbort
    /\ postedAtAbort = 1
    /\ Len(result.data) = 2
    /\ result.cancelled = Len(items) - 2
    /\ result.cancelled > 0

\* C3: a failed post never prevents the posting of the other items: once a
\* post has failed, every descriptor that is in the queue, then or later,
\* gets its transaction posted (unless the caller cancels).
C3_FailureDoesNotBlock ==
    \A i \in 1..MaxItems :
        (PostsFailed # {} /\ i \in Range(transactions))
        ~> (aborted \/ (i \in DOMAIN post /\ post[i] # "none"))

C3_Witness ==
    \E i, j \in DOMAIN items :
        /\ post[i] = "failed"
        /\ post[j] = "ok"
        /\ \E a, b \in 1..Len(postLog) :
               a < b /\ postLog[a] = i /\ postLog[b] = j

\* C4: at most one postContractTransaction is in flight at any time, and
\* the transactions are posted in exactly the order in which their
\* descriptors were pushed to the queue, whatever order the preparations
\* completed in.
C4_OneAtATimeFifo ==
    /\ Cardinality(InFlight) <= 1
    /\ postLog \o transactions = pushLog

C4_Witness ==
    /\ Len(postLog) >= 2
    /\ postLog[1] > postLog[2]
    /\ InFlight # {}

\* C5: once the signal is aborted no new post is started: every post is
\* started in a state where the signal is not aborted, nothing is dequeued
\* after the abort, and the loop that sees the signal returns.
C5_NoPostAfterAbort ==
    [][/\ Len(postLog') > Len(postLog) => ~aborted /\ ~aborted'
       /\ aborted => Len(transactions') >= Len(transactions)
       /\ (aborted /\ pc = "check" /\ pc' # pc) => pc' = "returned"]_vars

C5_Witness ==
    /\ pc = "returned"
    /\ aborted
    /\ transactions # <<>>
    /\ result.cancelled = Len(items) - Len(data)

\* C6 (as claimed): the number of items in preparation at the same time
\* never exceeds the chunk size.
C6_PreparingBoundedByChunk ==
    Cardinality(Preparing) <= BATCH_CHUNK_SIZE

\* -------------------------------------------- claims on membershipInvite

\* An item some member of the vault matches: the same address, whatever the
\* case of its letters, with an active-or-pending status.
HasActiveMember(item) ==
    \E k \in 1..Len(members) :
        /\ toLowerCase(members[k].email) = toLowerCase(item.email)
        /\ members[k].status \in activeStatus

ErrorsFor(email) == {k \in 1..Len(errors) : errors[k].email = email}

\* C8 (as claimed): a failure while preparing an item for a registered user
\* is recorded against that item in errors and does not make
\* membershipInvite throw.
C8_PrepareFailureCaptured ==
    \A i \in DOMAIN items :
        prep[i] = "failed"
        => /\ pc # "thrown"
           /\ \E k \in 1..Len(errors) :
                  "item" \in DOMAIN errors[k] /\ errors[k].item = i

\* C9 (as claimed): every item whose address matches a member with an
\* active-or-pending status gets an error entry for that address, and
\* neither a transaction nor an inviteNewUser call is issued for it.
C9_ActiveMemberRejected ==
    \A i \in DOMAIN items :
        (HasActiveMember(items[i]) /\ prep[i] # "idle")
        => /\ prep[i] = "rejected"
           /\ ErrorsFor(toLowerCase(items[i].email)) # {}
           /\ i \notin invited
           /\ i \notin Range(transactions)
           /\ post[i] = "none"

\* C10: an item whose address has no account is handled by inviteNewUser
\* only: no transaction is queued or posted for it; when inviteNewUser
\* succeeds, data (and the result returned) holds the entry with the
\* returned membership id and transactionId = null; when it fails, errors
\* holds an entry for that item.
C10_NewUserInvitedWithoutTransaction ==
    \A i \in DOMAIN items :
        i \in invited
        => /\ i \notin Range(transactions)
           /\ post[i] = "none"
           /\ \A k \in 1..Len(data) : data[k].membershipId # <<"membership", i>>
           /\ prep[i] = "invited"
              => /\ \E k \in 1..Len(data) :
                        /\ data[k].membershipId = <<"invite", i>>
                        /\ data[k].transactionId = Null
                 /\ pc = "returned"
                    => \E k \in 1..Len(result.data) :
                           /\ result.data[k].membershipId = <<"invite", i>>
                           /\ result.data[k].transactionId = Null
           /\ prep[i] = "inviteFailed"
              => /\ \E k \in 1..Len(errors) :
                        /\ "item" \in DOMAIN errors[k]
                        /\ errors[k].item = i
                        /\ errors[k].email = toLowerCase(items[i].email)
                 /\ \A k \in 1..Len(data) : data[k].membershipId # <<"invite", i>>

C10_Witness ==
    /\ pc = "returned"
    /\ \E i, j \in DOMAIN items :
           /\ prep[i] = "invited"
           /\ NewUserEntry(i) \in Range(result.data)
           /\ prep[j] = "queued"
           /\ MembershipEntry(j) \in Range(result.data)

\* ------------------------------------------------- claims on batchUpdate

\* C7 (as claimed): the batch update operations never throw for a partial
\* failure: when the fetch or the post of one item fails, batchUpdate does
\* not throw and the remaining items are still processed.
C7_PartialFailureIsolated ==
    failedItem # 0
    => /\ pc # "thrown"
       /\ pc = "returned" => \A i \in DOMAIN items : post[i] # "none"

\* C19: a post that was in flight when the signal fired is allowed to finish:
\* when stackCreate has returned and that post succeeded, the item is in the
\* returned data and the cancelled count covers only the items that are not
\* in data, so the item is counted as completed and not as cancelled.
\* No post is started once the signal is set, so the post that was in flight
\* at that moment is the one of currentTx.
C19_InFlightPostFinishes ==
    (result.returned /\ inFlightAtAbort /\ post[currentTx] = "ok")
    => /\ currentTx \in Range(result.data)
       /\ result.cancelled = Len(items) - Len(result.data)
       /\ currentTx \notin Range(result.errors)

\* C20: whenever stackCreate returns, every input item is accounted for
\* exactly once: data.length + errors.length + cancelled = items.length, and
\* cancelled = 0 when the signal was never aborted.
C20_EveryItemAccountedOnce ==
    result.returned
    => /\ Len(result.data) + Len(result.errors) + result.cancelled
            = Len(items)
       /\ (~aborted => result.cancelled = 0)

\* ------------------------------------------- claims on the progress hook

\* C18: after every per-item progress report the accumulated byte counter
\* equals the sum, over the uploads that have reported, of the bytes each
\* reported last; and the value given to the caller's progress hook is a
\* number within [0, 100] that is this sum as a percentage of the total size
\* of all files: the nearest whole percent, or 100 when the ratio is above.
C18_ProgressIsSumAsPercentage ==
    /\ progress = SumUpTo(perFileProgress, Len(items))
    /\ reported # NoReport
       => /\ reported.kind = "number"
          /\ reported.value \in 0..100
          /\ size > 0
             => \/ /\ reported.value = 100
                   /\ 200 * progress >= 199 * size
                \/ /\ reported.value < 100
                   /\ (2 * reported.value - 1) * size <= 200 * progress
                   /\ 200 * progress < (2 * reported.value + 1) * size

\* ------------------------------------------ claims on the group reference

\* the group reference a tag set carries, null when it carries none
GroupRefOf(t) ==
    IF \E x \in t : x[1] = "Group-Ref"
    THEN (CHOOSE x \in t : x[1] = "Group-Ref")[2]
    ELSE NullRef

\* C17: a batch call computes its group reference once; the reference is
\* non-null if and only if the call has more than one item, it is computed
\* before anything is posted or returned, and every transaction posted for
\* the call carries that same reference (no reference when it is null).
C17_OneGroupRefPerBatch ==
    /\ groupRefCalls <= 1
    /\ (postedTags # <<>> \/ result.returned) => groupRefCalls = 1
    /\ groupRefCalls = 1
       => /\ groupRef # NullRef <=> Len(items) > 1
          /\ groupRef # uuidv4(0)
    /\ \A k \in 1..Len(postedTags) :
          /\ GroupRefOf(postedTags[k]) = groupRef
          /\ Cardinality({x \in postedTags[k] : x[1] = "Group-Ref"})
                = (IF Len(items) > 1 THEN 1 ELSE 0)

\* A batch of several items has posted at least two transactions and has
\* returned; and the reference was set when the call began.
C17_Witness ==
    /\ result.returned
    /\ Len(postedTags) >= 2
    /\ groupRef = uuidv4(1)

\* ---------------------------------------------------- claims on the nodes

\* C11: the status of a node is a state machine.  Revoke on an ACTIVE node
\* yields REVOKED, restore on a REVOKED node yields ACTIVE again, delete on
\* an ACTIVE or REVOKED node yields DELETED; on a DELETED node no revoke,
\* restore or delete succeeds: the operation that reaches the ledger fails
\* with a precondition error and the status stays DELETED.
C11_StatusStateMachine ==
    outcome.op \in {"revoke", "restore", "delete"}
    => LET b == outcome.before.status IN
       /\ b = "DELETED"
          => /\ outcome.result # "ok"
             /\ node.status = "DELETED"
             /\ outcome.result # "transport" => outcome.result = "precondition"
       /\ outcome.result # "transport"
          => /\ (outcome.op = "revoke" /\ b = "ACTIVE")
                => outcome.result = "ok" /\ node.status = "REVOKED"
             /\ (outcome.op = "restore" /\ b = "REVOKED")
                => outcome.result = "ok" /\ node.status = "ACTIVE"
             /\ (outcome.op = "delete" /\ b \in {"ACTIVE", "REVOKED"})
                => outcome.result = "ok" /\ node.status = "DELETED"

\* A node was revoked and the restore that followed has made it ACTIVE.
C11_Witness ==
    /\ outcome.op = "restore"
    /\ outcome.before.status = "REVOKED"
    /\ outcome.result = "ok"
    /\ node.status = "ACTIVE"

\* C12: move and rename of a node succeed when the node is ACTIVE or
\* REVOKED, and leave its status as it is; when the node is DELETED they
\* fail with a precondition error and no transaction is posted for them.
C12_MoveRenameNeedLiveNode ==
    (outcome.op \in {"move", "rename"} /\ outcome.result # "transport")
    => LET b == outcome.before.status IN
       /\ b \in {"ACTIVE", "REVOKED"}
          => outcome.result = "ok" /\ node.status = b
       /\ b = "DELETED"
          => /\ outcome.result = "precondition"
             /\ ~outcome.posted
             /\ node = outcome.before

\* C13: the number of versions of a stack or note never decreases, whatever
\* operation is made on it, and every successful uploadRevision appends
\* exactly one version at the end: the versions there were stay as they
\* were, in the same order.
C13_VersionsOnlyGrow ==
    [][(node.status # "NONE" /\ node.type = "Stack")
       => LET V == Current(node).versions
              W == Current(node').versions IN
          /\ Len(W) >= Len(V)
          /\ (/\ outcome'.op \in {"stackUploadRevision", "noteUploadRevision"}
              /\ outcome'.result = "ok")
             => /\ Len(W) = Len(V) + 1
                /\ SubSeq(W, 1, Len(V)) = V]_vars

\* A note has got its third version by its second revision.
C13_Witness ==
    /\ outcome.op = "noteUploadRevision"
    /\ outcome.result = "ok"
    /\ Len(Current(node).versions) = 3

\* C14: a node is created with exactly one version and status ACTIVE: after
\* a successful stack create (single or batch), note create or memo create
\* the node is ACTIVE and its state, the only one it has, holds a versions
\* array of length 1.
C14_CreatedWithOneVersion ==
    (/\ outcome.op \in {"batchStackCreate", "stackCreate", "noteCreate",
                        "memoCreate"}
     /\ outcome.result = "ok")
    => /\ node.status = "ACTIVE"
       /\ Len(node.data) = 1
       /\ Len(Current(node).versions) = 1
       /\ Len(outcome.tx.data.versions) = 1

\* A batch stackCreate has created a stack.
C14_Witness ==
    /\ outcome.op = "batchStackCreate"
    /\ outcome.result = "ok"
    /\ node.type = "Stack"

\* ---------------------------------------------------- claims on the memos

\* the entry is the user's and its decrypted text is the emoji
IsReactionOf(entry, user, emoji) ==
    /\ \/ entry.owner = Address(user)
       \/ entry.address = Address(user)
       \/ entry.publicSigningKey = SigningPublicKey(user)
    /\ processReadString(entry.reaction) = emoji

C16_AddReactionAppendsOne ==
    outcome.op = "addReaction"
    => LET call == outcome.read
           old == call.currentState
           new == outcome.tx.data
           before == LastVersion(old).reactions
           after == LastVersion(new).reactions
       IN /\ Len(new.versions) = Len(old.versions)
          /\ \A v \in 1..(Len(old.versions) - 1) : new.versions[v] = old.versions[v]
          /\ Len(after) = Len(before) + 1
          /\ SubSeq(after, 1, Len(before)) = before
          /\ after[Len(after)].owner = Address(outcome.user)
          /\ processReadString(after[Len(after)].reaction) = call.reaction
          /\ new = [old EXCEPT !.versions[Len(old.versions)].reactions = after]
          /\ outcome.result = "ok" => Current(node) = new

\* A reaction has been added to a memo of two versions whose last version
\* held two reactions.
C16_Witness ==
    /\ outcome.op = "addReaction"
    /\ outcome.result = "ok"
    /\ Len(Current(node).versions) = 2
    /\ Len(LastVersion(outcome.read.currentState).reactions) = 2
    /\ Len(LastVersion(Current(node)).reactions) = 3

\* ------------------------------------- claims on the end of stackCreate

\* the preparation of every item was started and has failed
AllPrepFailed ==
    /\ Len(items) > 0
    /\ \A i \in DOMAIN prep : prep[i] = "failed"

\* C21: in stackCreate, if the preparation of every item fails inside the
\* concurrent block that nobody awaits and no cancellation is signalled,
\* nothing is ever queued and the drain loop polls the empty queue for
\* ever: stackCreate does not return (and does not throw).
C21_AllFailedNeverReturns ==
    /\ []((AllPrepFailed /\ ~aborted)
          => /\ ~result.returned
             /\ pc \in {"check", "wait"}
             /\ pushLog = <<>>
             /\ transactions = <<>>)
    /\ [](AllPrepFailed => <>(pc = "wait" \/ aborted))

\* The preparations of two items have failed and the loop waits on the
\* empty queue.
C21_Witness ==
    /\ Len(items) >= 2
    /\ \A i \in DOMAIN prep : prep[i] = "failed"
    /\ ~aborted
    /\ pc = "wait"
    /\ transactions = <<>>

\* nothing has failed and nothing was cancelled
NothingFails ==
    /\ pc # "thrown"
    /\ ~aborted
    /\ \A i \in DOMAIN prep : prep[i] # "failed"
    /\ \A i \in DOMAIN post : post[i] # "failed"

\* C28: if every item of a stackCreate is prepared, every post of a
\* transaction succeeds and the signal is never aborted, stackCreate
\* eventually returns with data.length = items.length, no errors and
\* cancelled = 0.
C28_AllGoodReturnsAll ==
    ([]NothingFails)
    => <>(/\ result.returned
          /\ Len(result.data) = Len(items)
          /\ result.errors = <<>>
          /\ result.cancelled = 0)

\* C29: in stackCreate an item is recorded in errors only if its
\* transaction was not accepted: an item whose post succeeded is recorded
\* in data and counted as created, also when onStackCreated or the
\* processing of the returned object fails after the post.
C29_ErrorsOnlyForRejectedPosts ==
    /\ \A k \in 1..Len(errors) : post[errors[k]] # "ok"
    /\ \A i \in DOMAIN post :
          (post[i] = "ok" /\ ~(pc = "processing" /\ currentTx = i))
          => i \in Range(data)

\* --------------------------------------------- claims on upload and post

C22_ContextNotShared ==
    \A c \in DOMAIN calls :
        /\ \A k \in 1..Len(calls[c].posted) :
              LET p == calls[c].posted[k] IN
              /\ p.vaultId = calls[c].items[p.item]
              /\ p.tags = getTxTags(calls[c].groupRef)
        /\ \A k \in 1..Len(calls[c].result) :
              LET r == calls[c].result[k] IN
              /\ r.decrypted = ~PublicVault(calls[c].items[r.item])
              /\ (r.keys = "null") = PublicVault(calls[c].items[r.item])
              /\ r.keys # "null" => r.keys = <<"keys", calls[c].items[r.item]>>

\* ------------------------------------------------------ claims on queries

\* C24: when a memo is processed with shouldDecrypt = true, a failure of
\* the decryption is raised as IncorrectEncryptionKey, never as a generic
\* error; with shouldDecrypt = false nothing is decrypted and no error is
\* raised.
C24_DecryptFailureIsIncorrectKey ==
    outcome.op = "processMemo" =>
        LET call == outcome.call IN
        /\ (call.shouldDecrypt /\ call.decryptFails)
              => outcome.result = [kind |-> "error", name |-> "IncorrectEncryptionKey"]
        /\ (call.shouldDecrypt /\ ~call.decryptFails)
              => outcome.result = [kind |-> "memo", decrypted |-> TRUE]
        /\ ~call.shouldDecrypt
              => outcome.result = [kind |-> "memo", decrypted |-> FALSE]

C24_Witness ==
    /\ outcome.op = "processMemo"
    /\ outcome.call.shouldDecrypt
    /\ outcome.call.decryptFails
    /\ outcome.result.kind = "error"

\* C25: NoteService.list returns exactly the stacks of the page whose latest
\* version has the type text/markdown or application/json, in the order of
\* the page, and the nextToken of the page.
C25_ListFiltersNotes ==
    outcome.op = "list" =>
        LET page == outcome.call.stacks.items
            notes == outcome.result.items
            kept == {i \in DOMAIN page :
                        page[i].versions[Len(page[i].versions)].type
                            \in {"text/markdown", "application/json"}}
        IN /\ Len(notes) = Cardinality(kept)
           /\ \A k \in DOMAIN notes :
                 /\ notes[k].id \in kept
                 /\ notes[k] = page[notes[k].id]
           /\ \A j, k \in DOMAIN notes : j < k => notes[j].id < notes[k].id
           /\ outcome.result.nextToken = outcome.call.stacks.nextToken

C25_Witness ==
    /\ outcome.op = "list"
    /\ Len(outcome.call.stacks.items) = 2
    /\ Len(outcome.result.items) = 1
    /\ outcome.result.items[1].id = 2
    /\ Len(outcome.result.items[1].versions) = 2
    /\ outcome.result.nextToken = "t1"

\* C26: reading or changing the current state targets the last element:
\* getVersion and getStackFile without an index return the last version,
\* and addReaction and removeReaction read the state of the last data
\* pointer and build a state that differs from it in the last version only.
C26_CurrentStateIsLast ==
    /\ [](outcome.op \in {"getVersion", "getStackFile"}
          => (outcome.call.index = <<>>
              => LET versions == node.data[Len(node.data)].versions
                 IN outcome.result = versions[Len(versions)]))
    /\ [][\A u \in Users :
            (pending[u].op = "none" /\ pending'[u].op # "none")
            => LET read == pending'[u].currentState
                   new == pending'[u].newState
                   last == Len(read.versions)
               IN /\ read = node.data[Len(node.data)]
                  /\ Len(new.versions) = last
                  /\ \A i \in 1..(last - 1) : new.versions[i] = read.versions[i]
                  /\ new.versions[last] # read.versions[last]
                  /\ new.tags = read.tags]_vars

C26_Witness ==
    /\ node.type = "Memo"
    /\ Len(node.data) = 2
    /\ \E u \in Users :
          /\ pending[u].op = "removeReaction"
          /\ pending[u].currentState = node.data[2]
          /\ Len(pending[u].currentState.versions) = 2

\* C27: getFile with isChunked and numberOfChunks = n downloads the chunks
\* id_0 .. id_(n-1) in this order and returns their contents concatenated
\* in this order; when the download or the processing of a chunk fails, the
\* call fails with the download error, returns no buffer and asks for no
\* further chunk.
C27_ChunksInOrderOrError ==
    (outcome.op = "getFile" /\ outcome.call.isChunked /\ outcome.call.context) =>
        LET n == outcome.call.numberOfChunks
            settle == outcome.call.settle
            failed == {k \in 1..n : settle[k] # "ok"}
        IN IF failed = {}
           THEN /\ outcome.result.kind = "file"
                /\ outcome.result.urls = [k \in 1..n |-> <<"id", k - 1>>]
                /\ outcome.result.file =
                      [kind |-> "buffer", bytes |-> [k \in 1..n |-> <<"byte", k - 1>>]]
           ELSE LET first == CHOOSE k \in failed : \A j \in failed : k <= j
                IN /\ outcome.result.kind = "error"
                   /\ outcome.result.name = "Failed to download"
                   /\ "file" \notin DOMAIN outcome.result
                   /\ outcome.result.urls = [k \in 1..first |-> <<"id", k - 1>>]

C27_Witness ==
    /\ outcome.op = "getFile"
    /\ outcome.call.isChunked
    /\ outcome.call.numberOfChunks = 2
    /\ outcome.result.kind = "file"
    /\ Len(outcome.result.file.bytes) = 2

\* ------------------------------------------- claims on memo reactions (2)

\* the reactions of the last version of a state
ReactionsOf(state) == LastVersion(state).reactions

\* C31: when two addReaction operations on a memo interleave, both reading
\* the current state before either posts, the state of the memo after both
\* transactions are applied holds both reactions.  Stated on the second of
\* the two posts: it was built from the state before the first one.
C31_NoReactionLost ==
    LET d == node.data
        k == Len(d)
    IN (/\ outcome.op = "addReaction"
        /\ outcome.result = "ok"
        /\ k >= 3
        /\ outcome.read.currentState = d[k - 2]
        /\ Len(ReactionsOf(d[k - 1])) = Len(ReactionsOf(d[k - 2])) + 1
        /\ SubSeq(ReactionsOf(d[k - 1]), 1, Len(ReactionsOf(d[k - 2])))
              = ReactionsOf(d[k - 2]))
       => /\ Len(ReactionsOf(d[k])) = Len(ReactionsOf(d[k - 2])) + 2
          /\ \E i \in DOMAIN ReactionsOf(d[k]) :
                ReactionsOf(d[k])[i] = ReactionsOf(d[k - 1])[Len(ReactionsOf(d[k - 1]))]
          /\ \E i \in DOMAIN ReactionsOf(d[k]) :
                /\ ReactionsOf(d[k])[i].owner = Address(outcome.user)
                /\ ReactionsOf(d[k])[i].createdAt = outcome.n

\* C32: addReaction and removeReaction build the new state on a deep copy:
\* the state that was fetched as the current state is, after the operation
\* has built and posted the new one, still a state the ledger stores, and
\* the new state is another one.
C32_CopyOnWrite ==
    /\ \A u \in Users :
          pending[u].op # "none"
          => /\ \E k \in DOMAIN node.data : pending[u].currentState = node.data[k]
             /\ pending[u].newState # pending[u].currentState
    /\ (outcome.op \in {"addReaction", "removeReaction"} /\ outcome.posted)
          => /\ \E k \in DOMAIN outcome.before.data :
                   outcome.read.currentState = outcome.before.data[k]
             /\ outcome.tx.data # outcome.read.currentState
             /\ outcome.result = "ok"
                   => /\ node.data[Len(outcome.before.data) + 1] = outcome.tx.data
                      /\ SubSeq(node.data, 1, Len(outcome.before.data))
                            = outcome.before.data

C32_Witness ==
    /\ outcome.op = "removeReaction"
    /\ outcome.result = "ok"
    /\ Len(node.data) = 3
    /\ outcome.read.currentState = node.data[2]
    /\ Len(ReactionsOf(node.data[3])) + 1 = Len(ReactionsOf(node.data[2]))

\* C33: when removeReaction finds no entry of the user with the reaction it
\* fails with NotFound before any side effect: nothing is uploaded or
\* posted, and the memo is as it was.
C33_NotFoundHasNoEffect ==
    [][\A u \in Users :
          LET old == ReactionsOf(node.data[Len(node.data)])
              removes == \/ (pending[u].op = "none" /\ pending'[u].op = "removeReaction")
                         \/ (/\ outcome' # outcome
                             /\ outcome'.op = "removeReaction"
                             /\ outcome'.user = u
                             /\ outcome'.n = opCount')
              reaction == IF outcome' # outcome THEN outcome'.read.reaction
                          ELSE pending'[u].reaction
          IN (/\ opCount' = opCount + 1
              /\ removes
              /\ ~\E i \in DOMAIN old : IsReactionOf(old[i], u, reaction))
             => /\ node' = node
                /\ pending' = pending
                /\ outcome' # outcome
                /\ outcome'.result = "NotFound"
                /\ ~outcome'.posted]_vars

C33_Witness ==
    /\ outcome.op = "removeReaction"
    /\ outcome.result = "NotFound"
    /\ outcome.user = "A"
    /\ ReactionsOf(Current(node)) # <<>>
    /\ node = outcome.before

\* C34: nothing is checked when a reaction is added and one match is taken
\* out when it is removed: when a user adds an emoji they have added
\* before, the new state holds one more entry of them with it, and when
\* they remove an emoji they have several entries of, the first of these is
\* taken out and the others stay.
C34_InsertUncheckedRemoveOne ==
    outcome.op \in {"addReaction", "removeReaction"} /\ outcome.posted
    => LET old == ReactionsOf(outcome.read.currentState)
           new == ReactionsOf(outcome.tx.data)
           Mine(rs) == {i \in DOMAIN rs :
                           IsReactionOf(rs[i], outcome.user, outcome.read.reaction)}
       IN IF outcome.op = "addReaction"
          THEN Cardinality(Mine(new)) = Cardinality(Mine(old)) + 1
          ELSE /\ Cardinality(Mine(new)) = Cardinality(Mine(old)) - 1
               /\ \A i \in Mine(old) :
                     (\E j \in Mine(old) : j < i) => \E k \in Mine(new) : new[k] = old[i]

\* User A, who had the emoji once, has added it again and then removed it:
\* the entry that is left is the one added last.
C34_Witness ==
    /\ outcome.op = "removeReaction"
    /\ outcome.user = "A"
    /\ outcome.result = "ok"
    /\ Len(node.data) = 3
    /\ LET old == ReactionsOf(node.data[2])
           new == ReactionsOf(node.data[3])
       IN /\ Len(old) = 2
          /\ Len(ReactionsOf(node.data[1])) = 1
          /\ IsReactionOf(old[1], "A", outcome.read.reaction)
          /\ IsReactionOf(old[2], "A", outcome.read.reaction)
          /\ new = <<old[2]>>

\* ------------------------------------------------------ claims on rename

\* C35: renaming a stack changes only its name: the number of versions,
\* their order and the content of each version are the same before and
\* after the rename.
C35_RenameKeepsVersions ==
    (outcome.op = "rename" /\ outcome.result = "ok")
    => LET old == Current(outcome.before)
           new == Current(node)
       IN /\ new = outcome.tx.data
          /\ Len(new.versions) = Len(old.versions)
          /\ \A i \in DOMAIN old.versions : new.versions[i] = old.versions[i]
          /\ new.tags = old.tags
          /\ processReadString(new.name) = "n2"
          /\ node.data = Append(outcome.before.data, new)
          /\ node.type = outcome.before.type
          /\ node.status = outcome.before.status

\* A stack of two versions has been renamed.
C35_Witness ==
    /\ outcome.op = "rename"
    /\ outcome.result = "ok"
    /\ Len(Current(node).versions) = 2
    /\ Current(node).versions[1] # Current(node).versions[2]
    /\ processReadString(Current(outcome.before).name) = "n1"

\* -------------------------------------------------- claims on batchUpdate

\* C36: batchUpdate posts its transactions one at a time, in the order of
\* the items, and when it completes result[i] is the transaction and the
\* object of items[i] for every i.
C36_PostsInOrderResultByPosition ==
    /\ \A k \in 1..Len(postLog) : postLog[k].item = k
    /\ Cardinality({i \in DOMAIN post : post[i] = "inflight"}) <= 1
    /\ \A i \in DOMAIN post :
          post[i] # "none" => \A j \in 1..(i - 1) : post[j] = "ok" /\ j \in {data[n].item : n \in DOMAIN data}
    /\ \A n \in DOMAIN data : data[n].item = n /\ data[n].transactionId = <<"tx", n>>
    /\ result.returned
          => /\ Len(result.data) = Len(items)
             /\ \A i \in DOMAIN items :
                   /\ result.data[i].item = i
                   /\ result.data[i].transactionId = <<"tx", i>>

C36_Witness ==
    /\ result.returned
    /\ Len(items) = 2
    /\ Len(postLog) = 2
    /\ result.data[2].item = 2

\* C37: in batchUpdate every transaction is posted to the vault of its item:
\* at each post the vault id, the public flag and the keys of the service
\* are those of the node of the item, also when consecutive items belong to
\* different vaults.
C37_PostedToOwnVault ==
    /\ \A k \in 1..Len(postLog) :
          postLog[k].vaultId = items[postLog[k].item].vaultId
    /\ pc \in {"post", "process"}
          => LET v == items[itemIndex].vaultId IN
             /\ vaultId = v
             /\ isPublic = PublicVault(v)
             /\ (keys = "null") = PublicVault(v)
             /\ keys # "null" => keys = <<"keys", v>>

\* The second item, of another vault than the first, is being posted.
C37_Witness ==
    /\ pc = "post"
    /\ itemIndex = 2
    /\ items[1].vaultId # items[2].vaultId
    /\ Len(postLog) = 2
    /\ postLog[1].vaultId # postLog[2].vaultId

\* --------------------------------------------- claims on membershipInvite

\* C38: when membershipInvite returns without throwing, every item is
\* accounted for exactly once: data.length + errors.length = items.length,
\* with one entry in data or in errors for each item; and no transaction is
\* posted before the preparation of all items has finished.
C38_EveryItemOnceNoEarlyPost ==
    /\ pc = "returned"
          => LET d == result.data
                 e == result.errors
                 DataOf(i) == {k \in DOMAIN d : d[k].membershipId[2] = i}
                 ErrorsOf(i) == {k \in DOMAIN e :
                                    "item" \in DOMAIN e[k] /\ e[k].item = i}
                 exists == {k \in DOMAIN e : "item" \notin DOMAIN e[k]}
                 rejected == {i \in DOMAIN items : prep[i] = "rejected"}
             IN /\ Len(d) + Len(e) = Len(items)
                /\ \A i \in DOMAIN items \ rejected :
                      Cardinality(DataOf(i)) + Cardinality(ErrorsOf(i)) = 1
                /\ \A i \in rejected : DataOf(i) = {} /\ ErrorsOf(i) = {}
                /\ Cardinality(exists) = Cardinality(rejected)
    /\ (postLog # <<>> \/ \E i \in DOMAIN post : post[i] # "none")
          => \A i \in DOMAIN items :
                prep[i] \in {"rejected", "queued", "invited", "inviteFailed"}

\* membershipInvite has returned for two items: one is a member already,
\* the transaction of the other was posted and rejected.
C38_Witness ==
    /\ pc = "returned"
    /\ Len(items) = 2
    /\ \E i \in DOMAIN items : prep[i] = "rejected"
    /\ \E i \in DOMAIN items : post[i] = "failed"
    /\ Len(result.errors) = 2

\* --------------------------------------------------- claims on uploadData

\* C39: uploadData returns the ids by position: result[i] is the id of the
\* upload of items[i] for every i, whatever the order in which the uploads
\* complete.
C39_IdsByPosition ==
    /\ \A i \in DOMAIN uploads : uploads[i] \in {NoId, StateId(i)}
    /\ \A i \in DOMAIN items :
          prep[i] = "uploaded" => i \in DOMAIN uploads /\ uploads[i] = StateId(i)
    /\ pc = "returned"
          => /\ Len(result.data) = Len(items)
             /\ \A i \in DOMAIN items : result.data[i] = StateId(i)

\* uploadData has returned for three items whose uploads completed in the
\* order 3, 1, 2.
C39_Witness ==
    /\ pc = "returned"
    /\ Len(items) = 3
    /\ pushLog = <<3, 1, 2>>
    /\ result.data[3] = StateId(3)
====
